---------------------------- MODULE Spec2Model ----------------------------
(***************************************************************************)
(* Othello engine: board and move model, heuristic evaluator, Zobrist     *)
(* keys, transposition table, move ordering, alpha-beta search and the    *)
(* iterative-deepening controller, with the web and drop-down copies of the  *)
(* search.  Cell values follow the source: 0 empty, 1 black, -1 white.    *)
(***************************************************************************)
EXTENDS Integers, Sequences, FiniteSets, TLC

BOARD_SIZE == 8

Idx == 0 .. (BOARD_SIZE - 1)

Cells == Idx \X Idx

BLACK == 1

WHITE == -1

\* float('inf') of the source: larger than any value evaluate_board returns.
INF == 1000000

INITIAL_BOARD ==
  [r \in Idx |-> [c \in Idx |->
     IF (r = 3 /\ c = 3) \/ (r = 4 /\ c = 4) THEN WHITE
     ELSE IF (r = 3 /\ c = 4) \/ (r = 4 /\ c = 3) THEN BLACK
     ELSE 0]]

POSITION_WEIGHTS ==
  << << 100, -20, 10,  5,  5, 10, -20, 100 >>,
     << -20, -50, -2, -2, -2, -2, -50, -20 >>,
     <<  10,  -2,  0,  0,  0,  0,  -2,  10 >>,
     <<   5,  -2,  0,  0,  0,  0,  -2,   5 >>,
     <<   5,  -2,  0,  0,  0,  0,  -2,   5 >>,
     <<  10,  -2,  0,  0,  0,  0,  -2,  10 >>,
     << -20, -50, -2, -2, -2, -2, -50, -20 >>,
     << 100, -20, 10,  5,  5, 10, -20, 100 >> >>

\* POSITION_WEIGHTS[r][c] with the source's 0-based indices.
Weight(r, c) == POSITION_WEIGHTS[r + 1][c + 1]

\* random.seed(0xC0FFEE); each 64-bit value is written as the set of its
\* one-bits, so that XOR is the symmetric difference.
ZOBRIST_TABLE ==
  <<
     <<<<{0,2,4,9,10,13,14,21,22,24,26,28,29,30,31,32,33,34,36,38,39,40,41,42,47,49,50,51,56,58,60,63}, {3,4,5,6,7,10,11,13,14,16,17,19,21,22,25,26,27,28,31,34,35,36,38,40,41,42,45,48,53,54,58,59,61}>>,
       <<{0,1,5,8,11,12,13,15,16,18,19,21,26,37,39,42,43,44,45,47,56,57,58,59,60}, {1,2,8,9,10,12,13,15,17,19,21,22,23,24,27,29,31,36,39,41,45,47,50,51,52,53,55,56,58,59,61,62}>>,
       <<{1,3,4,6,7,8,10,11,12,13,14,15,16,17,18,19,22,23,28,29,33,34,35,36,37,38,39,42,45,47,52,58,59,62}, {0,2,3,6,8,11,12,13,16,18,19,20,21,22,23,26,30,31,34,35,38,40,41,42,43,44,45,46,47,48,49,50,51,53,54,57,60,61,62,63}>>,
       <<{0,2,3,5,8,10,11,13,14,17,19,21,22,27,28,29,30,34,35,36,37,39,41,45,47,50,52,59,61,62}, {0,2,6,7,9,14,23,26,27,29,30,33,34,35,36,40,42,44,45,48,49,51,53,54,57,61,63}>>,
       <<{2,3,5,6,10,11,12,16,18,26,27,28,29,31,32,33,34,35,36,37,38,41,42,43,49,50,52,53,54,58,60,62}, {0,2,3,5,6,9,10,13,14,18,21,23,24,26,29,31,39,43,47,54,55,58,60,62,63}>>,
       <<{0,1,2,5,6,7,8,12,13,14,15,19,20,22,23,25,26,27,29,30,31,37,38,39,41,43,48,53,54,56,59,61}, {0,2,5,6,7,8,9,12,17,20,22,25,26,27,28,29,30,31,33,37,38,39,43,44,46,47,48,49,51,54,56,57,62,63}>>,
       <<{0,2,3,4,5,9,12,16,17,19,20,21,22,23,24,27,29,30,31,33,34,36,37,39,40,41,42,43,45,47,52,54,58,59,61,62}, {0,2,3,4,7,8,9,11,17,19,21,23,25,29,31,32,34,36,44,46,47,51,53,56,57,58,59,61,62}>>,
       <<{0,1,2,3,5,7,10,12,15,18,19,21,23,24,25,27,29,30,31,34,36,39,40,43,44,46,51,52,53,57,58,59,62}, {1,2,3,6,7,9,12,14,17,19,20,21,23,24,26,27,29,31,32,34,38,40,42,44,47,48,49,50,51,54,56,59,60}>>>>,
     <<<<{0,1,2,3,5,11,15,16,17,18,19,23,27,28,30,32,34,41,42,43,46,47,48,50,52,53,54,57,58,62,63}, {1,4,5,6,7,9,10,11,12,13,14,16,17,19,22,24,26,27,28,32,34,42,43,47,49,50,51,52,54,55,56,57,58,60,62}>>,
       <<{0,1,4,5,8,11,13,14,15,16,17,20,21,24,25,26,29,35,36,38,39,40,41,42,43,45,46,47,51,52,55,56,59,60,62,63}, {0,9,12,13,16,17,18,19,23,24,25,26,27,28,29,32,33,38,39,41,42,44,49,52,53,54,55,56,58,59,61,62}>>,
       <<{3,4,6,7,8,10,12,14,15,16,17,18,20,22,24,25,27,30,31,32,33,34,35,36,37,40,41,42,43,45,46,50,51,52,54,55,56,60}, {0,2,9,10,11,12,14,17,25,29,32,33,34,38,43,45,47,53,54,59,63}>>,
       <<{4,5,9,10,12,13,14,15,17,18,19,21,22,25,27,29,31,32,35,37,38,42,45,46,48,49,50,52,56,57,60,61}, {0,1,2,4,6,7,10,13,14,19,20,21,23,24,26,30,31,32,33,35,37,38,39,40,41,42,48,50,52,53,54,61,62}>>,
       <<{1,2,6,8,12,13,15,16,19,21,24,26,27,31,35,40,44,48,49,50,51,53,57,59,60,61,62}, {0,1,7,8,9,11,14,17,22,23,24,25,26,27,29,30,33,35,37,39,41,43,44,45,46,47,52,57,59,60,62,63}>>,
       <<{6,8,11,12,15,16,17,19,22,23,24,25,26,27,29,32,36,37,38,39,43,47,49,53,54,55,56,58,59,61}, {1,2,5,6,12,18,24,25,26,27,29,30,31,32,33,34,35,36,38,39,40,41,42,44,45,48,51,55,56,59,60,61,63}>>,
       <<{1,2,3,4,8,9,10,15,16,18,20,22,24,25,28,30,31,33,34,35,37,40,44,45,46,48,49,51,54,56,58,59,60,62,63}, {2,5,9,12,13,17,18,19,21,25,27,30,32,36,37,44,47,48,49,50,52,53,55,56,58,62,63}>>,
       <<{0,1,2,4,6,7,9,10,11,12,13,14,16,25,27,28,29,30,31,32,35,39,43,46,47,48,50,51,52,53,54,55,56,57,58}, {0,2,4,8,9,10,11,12,13,15,19,20,23,24,28,32,33,34,36,38,39,40,42,43,45,47,49,50,51,53,54,55,56,63}>>>>,
     <<<<{0,5,6,7,8,10,11,12,13,14,17,19,20,22,25,30,34,35,36,38,44,45,49,50,54,57,59,60,61}, {0,2,3,10,14,21,22,23,25,26,29,30,32,33,36,38,39,43,46,47,48,49,51,53,55,57,59,61,63}>>,
       <<{1,2,3,4,6,9,11,12,16,18,19,20,24,26,30,31,32,33,34,35,38,41,42,44,45,48,52,53,54,56,57,60,61}, {4,5,6,8,9,11,14,18,22,23,25,27,28,32,35,36,40,42,43,44,46,47,48,49,53,54,56,57,58,62}>>,
       <<{4,6,7,9,10,13,14,15,17,18,22,25,26,28,30,32,34,38,39,44,47,48,50,53,54,56}, {0,1,2,5,6,7,8,11,12,13,15,18,21,22,23,24,31,32,34,35,36,41,42,43,45,46,49,51,52,53,54,56,57,59}>>,
       <<{1,3,4,11,12,15,17,18,19,21,22,24,28,29,30,31,33,34,35,36,37,39,43,45,47,49,53,55,56,58,61,62,63}, {0,3,4,5,6,8,11,12,13,14,17,20,23,25,29,31,34,37,39,40,41,43,44,45,46,47,48,49,50,53,54,56,60}>>,
       <<{0,1,2,7,8,9,11,14,16,17,20,22,24,25,27,28,32,33,34,35,42,43,45,47,48,56,58,59,60,61}, {0,1,2,5,6,11,14,15,17,20,21,24,26,28,30,32,33,34,35,40,41,42,43,44,46,49,51,52,53,54,57,60,62,63}>>,
       <<{0,1,4,6,7,10,13,16,17,19,23,24,26,28,29,38,39,40,41,43,46,47,49,50,53,57,58,59,61,62,63}, {9,11,13,14,18,19,20,21,25,27,30,31,33,36,37,39,40,43,44,45,48,49,51,52,54,55,56,57,59,60,63}>>,
       <<{0,2,4,6,8,10,12,18,20,21,22,25,27,28,33,34,35,36,37,39,40,41,42,43,45,46,53,54,55,56,58,59,63}, {0,2,4,5,7,11,14,15,17,18,23,24,29,32,35,38,40,41,43,44,45,46,48,50,53,57,58,60,62,63}>>,
       <<{0,1,4,5,6,7,8,10,14,18,20,23,24,25,28,30,34,35,36,39,40,41,44,46,48,49,50,53,54,55,57,58,59,60,62,63}, {0,4,5,7,12,13,15,16,22,23,25,26,27,28,32,33,34,35,36,37,40,44,46,48,49,50,56,57,62}>>>>,
     <<<<{0,2,3,5,8,10,11,14,16,18,19,20,21,22,23,24,25,26,27,29,30,31,33,35,38,39,40,41,43,48,51,52,53,54,56,58,59,60}, {1,3,4,5,9,14,16,17,18,19,22,23,24,25,30,33,35,40,42,44,45,46,47,51,52,57,58,59,60,62,63}>>,
       <<{2,6,11,13,15,16,17,18,20,21,24,26,28,29,32,33,35,37,39,43,44,45,46,50,51,53,54,56,57,60,62,63}, {0,1,3,4,5,8,9,11,12,13,16,19,21,25,27,28,35,36,37,38,39,40,41,45,46,47,48,50,52,53,55,58,61,62}>>,
       <<{0,3,5,7,11,12,13,14,15,17,18,22,25,26,28,29,30,33,34,36,38,39,40,41,44,45,46,47,49,50,51,53,54,55,59,61,62,63}, {0,2,3,4,7,8,12,13,14,16,17,18,22,28,29,31,32,34,35,36,39,40,41,42,44,45,48,50,51,55,59,61,63}>>,
       <<{0,1,2,3,4,5,7,8,9,14,15,16,18,19,20,22,23,24,25,32,33,34,35,36,39,42,44,46,47,48,49,50,52,53,54,56,60,61,62,63}, {1,3,6,7,8,9,11,12,14,17,18,20,23,25,28,30,32,34,36,38,39,40,42,43,44,45,46,47,48,50,54,56,57,58,61,63}>>,
       <<{1,3,6,7,9,11,12,14,15,19,22,28,29,30,33,35,37,38,42,45,47,49,50,52,53,55,60,62,63}, {10,17,18,19,21,24,26,31,35,36,39,40,41,44,47,48,49,50,53,54,55,58,59,60,61,62,63}>>,
       <<{0,1,5,6,7,8,9,11,12,14,15,21,24,25,29,30,32,34,36,37,38,40,41,43,44,47,50,51,57,58,60,61,62}, {2,4,7,9,10,11,12,16,17,18,21,31,32,35,36,42,44,45,47,49,52,54,57,58,59,62}>>,
       <<{0,1,6,8,9,10,11,15,16,21,23,25,27,31,34,39,40,42,45,46,48,49,50,51,52,53,56,59,61}, {1,4,5,6,7,12,14,15,17,18,19,22,26,30,33,34,35,36,38,40,49,50,51,57,60,62}>>,
       <<{0,3,5,12,13,14,15,17,19,20,21,23,28,29,31,32,33,35,36,40,42,44,45,46,47,48,49,50,51,52,53,56,59,60,61,62}, {1,3,5,6,9,13,15,17,18,23,24,25,26,27,31,33,34,36,38,40,42,44,46,48,51,52,54,55,57,59,60,61,62}>>>>,
     <<<<{0,3,4,6,7,9,17,18,23,26,27,29,30,31,32,33,41,42,49,52,53,54,58,59,60}, {1,6,8,9,12,14,15,16,17,18,23,26,28,30,31,32,34,37,38,40,42,44,45,46,49,50,51,55,60,62,63}>>,
       <<{0,1,3,4,5,6,7,8,9,11,12,14,15,16,17,22,24,25,27,32,35,37,43,47,49,56,60,61}, {0,1,2,9,11,13,14,15,16,19,20,22,25,26,27,31,33,34,35,36,39,40,43,45,47,50,51,56,58,60,62,63}>>,
       <<{0,1,4,5,6,10,11,13,15,16,17,19,20,21,23,24,26,27,29,30,34,35,37,43,45,46,47,50,53,58,59,61,62}, {0,1,2,3,4,6,7,8,10,12,15,16,18,22,25,26,27,31,33,34,35,38,39,40,42,43,44,45,48,53,55,56,57,58,60,61,63}>>,
       <<{0,1,4,5,9,10,13,14,15,16,20,28,29,30,31,32,38,39,41,42,43,47,48,49,51,52,56,59,61,62,63}, {0,3,4,5,7,9,10,12,13,14,17,19,20,23,24,26,27,29,30,31,33,35,38,40,41,42,43,44,45,47,48,49,52,55,57,60,63}>>,
       <<{1,2,3,4,5,6,7,8,12,13,23,24,25,27,30,31,32,33,34,35,39,40,41,42,43,44,45,48,49,54,55,56,58,60,61,62}, {1,2,4,7,9,12,15,19,20,23,24,26,31,32,33,36,38,39,40,44,45,50,51,52,53,54,57,58,59,60}>>,
       <<{1,2,3,4,5,6,7,13,18,19,20,21,22,23,24,26,27,28,30,31,34,36,40,41,45,46,47,50,52,53,54,56,58,60,62}, {1,2,3,5,6,8,9,10,13,14,15,20,21,24,27,28,31,32,33,36,37,40,42,43,45,47,48,50,51,52,53,54,56,60,62,63}>>,
       <<{1,2,3,5,6,7,9,10,13,14,17,18,23,24,25,26,27,28,29,33,35,37,41,43,44,45,47,48,49,51,52,53,54,55,58,59,61,63}, {0,1,2,12,13,14,15,17,18,19,21,22,23,24,26,27,32,33,39,40,41,42,48,49,53,54,55,58,61,63}>>,
       <<{4,5,7,8,9,10,14,16,17,18,19,22,24,27,29,30,31,34,35,40,44,48,50,51,54,55,56,57,58,59,63}, {0,2,4,5,11,14,16,17,18,20,22,23,24,26,28,31,32,38,41,43,49,50,53,54,56,61,62,63}>>>>,
     <<<<{0,2,3,5,8,12,14,16,18,19,20,21,22,25,29,32,35,36,37,40,42,43,44,48,51,52,54,55,57,58,60,62,63}, {0,1,3,5,6,7,9,10,13,14,15,16,17,19,22,23,24,27,29,30,32,35,39,40,48,49,51,52,53,55,57,59,61}>>,
       <<{0,1,6,11,12,17,20,23,25,27,29,30,35,37,39,41,45,47,49,50,51,54,55,56,59}, {3,4,6,7,8,10,12,13,15,19,21,23,24,25,28,31,34,37,38,40,41,42,45,46,47,48,51,53,54,55,56,57,58,59,60,61}>>,
       <<{1,2,3,4,5,7,11,14,15,16,17,19,21,22,24,28,30,31,32,33,34,39,41,42,43,47,48,49,50,51,53,61,62}, {1,2,4,5,7,10,11,14,20,21,24,25,26,28,30,31,35,36,37,38,40,42,43,44,45,47,49,50,52,53,54,56,57,61,62,63}>>,
       <<{2,3,4,5,6,7,8,10,11,12,13,14,16,17,18,19,21,22,23,24,29,30,32,35,38,39,40,47,48,49,50,55,58,60,61,62}, {0,1,3,8,11,12,14,17,19,21,22,24,27,30,34,35,36,37,42,45,49,50,51,52,54,56,57,58,59,60,61,62,63}>>,
       <<{3,4,6,12,14,15,16,20,21,22,24,26,27,28,29,32,35,37,39,42,44,45,48,51,52,55,59}, {1,2,3,5,9,11,12,17,18,19,21,24,26,27,28,32,34,35,36,37,38,42,43,44,46,47,49,51,53,54,55,56,58,59,60,61}>>,
       <<{5,6,7,8,12,13,14,15,16,17,20,21,25,28,32,33,41,42,45,46,47,48,49,54,58,61,62,63}, {0,3,5,6,8,10,17,21,23,26,28,29,31,36,40,42,43,44,47,48,50,52,53,55,57,59,60,62}>>,
       <<{1,4,8,9,10,11,13,14,17,18,19,20,22,23,25,26,27,28,29,32,33,34,37,38,39,40,46,48,55,56,58,61,62}, {0,1,3,4,5,6,8,9,11,13,17,18,20,21,22,24,25,26,29,32,39,40,42,43,45,46,50,52,54,55,56,58,60,61,62,63}>>,
       <<{0,1,3,6,7,8,9,10,11,14,15,16,17,18,23,24,25,27,31,38,40,44,46,47,48,50,51,52,56,58,59,61,63}, {0,2,3,4,5,6,10,11,12,13,19,29,30,32,33,34,38,41,42,45,47,48,49,50,51,53,55,56,59,60,61,62,63}>>>>,
     <<<<{0,3,4,6,8,9,11,12,15,16,17,19,20,24,29,30,35,37,39,41,43,47,49,50,53,55,56,57,58,60,61,63}, {2,3,4,7,14,15,16,17,18,19,21,22,27,29,31,33,34,35,37,38,40,42,51,53,59,60,62,63}>>,
       <<{0,1,3,5,8,9,16,17,20,23,27,28,29,30,35,37,39,40,43,45,46,47,49,51,58,59,60}, {1,3,5,6,8,11,13,14,15,16,17,19,22,24,25,29,31,34,35,36,38,45,47,51,54,55,58,60,61}>>,
       <<{0,1,2,3,5,7,9,10,11,13,14,15,20,25,27,28,30,33,34,36,38,39,41,42,43,45,47,49,50,53,54,56,59,62,63}, {0,1,2,3,4,6,7,9,15,20,25,28,31,36,37,38,39,40,45,49,50,51,52,53,54,56,57,59,61,62}>>,
       <<{0,1,5,7,8,12,13,16,17,22,23,24,25,26,36,37,41,43,44,47,48,50,51,52,54,57,58,59,61,62}, {0,1,7,8,11,12,13,14,16,18,20,21,22,23,26,28,30,32,33,34,37,39,41,42,51,57,59,60,61}>>,
       <<{1,2,4,6,7,8,9,10,11,12,13,14,17,18,20,21,22,24,25,26,28,29,30,31,35,36,39,40,45,47,48,49,50,57,59}, {2,6,7,8,10,11,12,13,18,20,21,22,23,24,25,31,32,33,39,41,43,44,45,49,52,53,54,60,61,62,63}>>,
       <<{0,1,2,3,4,5,8,10,11,14,16,22,25,31,32,34,37,41,42,45,46,47,48,50,53,54,56,57,59,60,61,62,63}, {0,2,4,5,7,8,10,13,21,22,28,33,36,37,38,39,41,42,44,48,50,54,60,62}>>,
       <<{0,1,3,5,6,7,8,11,12,14,19,20,21,23,25,26,27,28,29,30,31,32,34,36,40,41,42,43,45,48,49,50,52,54,55,61,63}, {0,2,3,6,8,9,11,12,13,14,15,17,18,21,23,25,26,27,28,29,33,36,38,49,50,52,54,56,60}>>,
       <<{0,3,6,7,9,10,12,13,15,16,17,18,20,23,24,25,27,28,29,34,35,41,42,43,45,47,48,49,53,54,55,56,57,59,60}, {1,2,4,6,8,9,10,12,13,14,16,19,20,21,23,26,29,30,32,33,36,40,44,45,47,49,53,54,55,56,57,58,59,60,62}>>>>,
     <<<<{3,5,6,7,8,10,13,15,17,18,19,20,22,23,24,25,26,28,31,38,42,44,47,49,51,55,57,59,60,62}, {3,4,5,6,7,8,9,10,12,16,17,20,24,25,26,27,28,29,31,32,33,35,37,42,45,46,52,53,56,57,62,63}>>,
       <<{0,3,4,5,6,8,9,10,11,14,16,19,20,22,24,25,26,27,28,29,30,31,33,34,36,38,40,43,45,52,53,55,60,61,62,63}, {3,4,6,9,10,11,12,16,17,19,20,24,25,27,29,36,39,40,42,43,45,58,61,63}>>,
       <<{0,1,2,3,4,7,8,9,11,13,15,17,20,24,27,29,32,34,35,36,40,42,43,44,48,50,52,53,57,59,60,61,63}, {0,3,4,6,10,11,12,13,16,17,18,24,27,28,29,30,35,39,41,42,43,44,49,50,52,53,54,57,58,60,62}>>,
       <<{0,1,3,4,13,14,15,16,17,20,21,22,24,25,29,31,34,35,36,37,38,39,45,47,49,52,56,59,60,61}, {0,1,2,3,4,5,6,7,10,12,14,15,16,17,18,19,21,22,23,28,30,31,32,36,37,38,39,41,43,46,58,59,61,62,63}>>,
       <<{0,1,2,7,8,10,11,12,13,16,17,20,22,23,24,25,33,36,40,42,44,46,48,51,52,56,59,63}, {5,7,8,9,10,11,12,14,15,18,22,25,27,28,32,35,37,39,40,42,43,44,46,51,52,53,54,55,58,61,62}>>,
       <<{0,4,6,7,9,11,14,15,18,20,21,23,24,25,26,27,29,30,31,35,36,38,39,40,41,42,47,49,52,54,55,56,61}, {1,2,4,7,10,12,14,16,17,18,20,22,23,27,32,34,35,36,38,40,41,42,44,45,47,49,52,53,56,57,58,60}>>,
       <<{2,3,4,6,9,11,12,16,18,21,25,26,30,31,32,34,38,41,44,45,49,53,54,56,57,58,61}, {1,3,4,6,7,8,9,12,15,20,22,26,27,29,30,31,32,35,37,38,40,41,43,44,45,47,49,51,52,53,54,59,60,63}>>,
       <<{3,6,7,8,13,17,18,19,23,25,29,30,32,33,34,35,37,39,40,42,43,46,47,48,50,54,57,59,61,62,63}, {2,7,12,15,17,19,23,24,26,27,30,32,33,34,35,38,40,41,47,49,52,53,54,57}>>>>
  >>
ZOBRIST_PLAYER == {0,1,3,4,6,11,12,16,20,21,25,30,31,33,36,38,39,41,43,44,47,48,51,53,54,56,57,59,61,63}

\* list(set(moves)) enumerates a set in an order the interpreter fixes (the
\* hashes of the cells and the set's table), the same every time for the
\* same set: setOrder names that order.
VARIABLES
  initial,    \* the module's list INITIAL_BOARD as it is now, and whether game.board is that list
  setOrder,   \* the order in which list(set(...)) enumerates
  copy,       \* the copy of the engine that runs: "cli", "web" or "dropdown"
  mode,       \* Othello.mode of the web copy: "human" or "ai"
  game,       \* the caller's Othello object
  TT,         \* the CLI copy's global transposition table
  pc,         \* where the running operation stands
  timer,      \* the CLI ai_move's SearchTimer
  ai,         \* the locals of the CLI ai_move
  call        \* the operation under way or just finished: arguments, result, record

vars == << initial, setOrder, copy, mode, game, TT, pc, timer, ai, call >>

SetOrders == {"asc", "desc", "col"}

None == << >>

Rank(m) ==
  CASE setOrder = "asc" -> m[1] * BOARD_SIZE + m[2]
    [] setOrder = "desc" -> 0 - (m[1] * BOARD_SIZE + m[2])
    [] OTHER -> m[2] * BOARD_SIZE + m[1]

\* The number of cells of S that list(S) gives before cell x.
Before(S, x) == Cardinality({ y \in S : Rank(y) < Rank(x) })

\* list(S)
ListOfSet(S) == [k \in 1 .. Cardinality(S) |-> CHOOSE x \in S : Before(S, x) = k - 1]

SeqToSet(s) == { s[i] : i \in DOMAIN s }

Directions ==
  << << -1, -1 >>, << -1, 0 >>, << -1, 1 >>, << 0, -1 >>,
     << 0, 1 >>, << 1, -1 >>, << 1, 0 >>, << 1, 1 >> >>

InBoard(r, c) == r \in Idx /\ c \in Idx

\* The while loop of _is_valid_flip.
RECURSIVE FlipScan(_, _, _, _, _, _)
FlipScan(board, r, c, dr, dc, player) ==
  CASE ~InBoard(r, c) -> FALSE
    [] InBoard(r, c) /\ board[r][c] = player -> TRUE
    [] InBoard(r, c) /\ board[r][c] = 0 -> FALSE
    [] OTHER -> FlipScan(board, r + dr, c + dc, dr, dc, player)

\* _is_valid_flip without its while loop: a run of the opponent's cells
\* counts whether or not a cell of the player's ends it.
IsValidFlipOpen(board, r, c, dr, dc, player) ==
  InBoard(r + dr, c + dc) /\ board[r + dr][c + dc] = 0 - player

IsValidFlip(board, r, c, dr, dc, player) ==
  IF ~InBoard(r + dr, c + dc) THEN FALSE
  ELSE IF board[r + dr][c + dc] # 0 - player THEN FALSE
  ELSE FlipScan(board, r + dr, c + dc, dr, dc, player)

\* The cells get_valid_moves collects; it returns them as list(set(moves)).
CanPlace(board, m, player) ==
  /\ board[m[1]][m[2]] = 0
  /\ \E i \in DOMAIN Directions :
       IsValidFlip(board, m[1], m[2], Directions[i][1], Directions[i][2], player)

ValidMoveSet(board, player) == { m : m \in { x \in Cells : CanPlace(board, x, player) } }

GetValidMoves(board, player) == ListOfSet(ValidMoveSet(board, player))

\* That loop taking the opponent's pieces off the board.
RECURSIVE FlipRayRemoving(_, _, _, _, _, _)
FlipRayRemoving(acc, nr, nc, dr, dc, player) ==
  IF ~InBoard(nr, nc) THEN acc
  ELSE IF acc.board[nr][nc] # 0 - player THEN acc
  ELSE FlipRayRemoving([board |-> [acc.board EXCEPT ![nr][nc] = 0], n |-> acc.n + 1],
                       nr + dr, nc + dc, dr, dc, player)

\* That loop without total_flipped += 1.
RECURSIVE FlipRayUncounted(_, _, _, _, _, _)
FlipRayUncounted(acc, nr, nc, dr, dc, player) ==
  IF ~InBoard(nr, nc) THEN acc
  ELSE IF acc.board[nr][nc] # 0 - player THEN acc
  ELSE FlipRayUncounted([board |-> [acc.board EXCEPT ![nr][nc] = player], n |-> acc.n],
                        nr + dr, nc + dc, dr, dc, player)

\* The inner while loop of make_move, with its bounds test (CLI copy): acc
\* holds the board and total_flipped.
RECURSIVE FlipRay(_, _, _, _, _, _)
FlipRay(acc, nr, nc, dr, dc, player) ==
  IF ~InBoard(nr, nc) THEN acc
  ELSE IF acc.board[nr][nc] # 0 - player THEN acc
  ELSE FlipRay([board |-> [acc.board EXCEPT ![nr][nc] = player], n |-> acc.n + 1],
               nr + dr, nc + dc, dr, dc, player)

\* The for loop of make_move over the directions, from direction i on: each
\* pass tests _is_valid_flip on the board the earlier passes left.
RECURSIVE FlipDirs(_, _, _, _, _)
FlipDirs(acc, r, c, player, i) ==
  CASE i > Len(Directions) -> acc
    [] i <= Len(Directions)
         /\ IsValidFlip(acc.board, r, c, Directions[i][1], Directions[i][2], player) ->
       FlipDirs(FlipRay(acc, r + Directions[i][1], c + Directions[i][2],
                        Directions[i][1], Directions[i][2], player),
                r, c, player, i + 1)
    [] OTHER -> FlipDirs(acc, r, c, player, i + 1)

\* The statements of make_move after its legality test.
Placed(g, r, c, player) ==
  FlipDirs([board |-> [g.board EXCEPT ![r][c] = player], n |-> 0], r, c, player, 1)

\* make_move with self.current_player = -self.current_player.
MovedToggling(g, player, f) ==
  [game |-> [g EXCEPT !.board = f.board, !.current_player = 0 - @],
   isFalse |-> FALSE, ret |-> f.n]

\* make_move without self.current_player = -player.
MovedSameSide(g, player, f) ==
  [game |-> [g EXCEPT !.board = f.board], isFalse |-> FALSE, ret |-> f.n]

\* What make_move hands back once the flips f are done.
Moved(g, player, f) ==
  [game |-> [g EXCEPT !.board = f.board, !.current_player = 0 - player],
   isFalse |-> FALSE, ret |-> f.n]

\* make_move testing only that the cell is on the board and empty.
MakeMoveOnEmpty(g, r, c, player) ==
  IF ~InBoard(r, c) THEN [game |-> g, isFalse |-> TRUE, ret |-> 0]
  ELSE IF g.board[r][c] # 0 THEN [game |-> g, isFalse |-> TRUE, ret |-> 0]
  ELSE Moved(g, player, Placed(g, r, c, player))

\* make_move of the CLI copy on game g: the game after the call and the value
\* returned (False, which counts as 0 in arithmetic, or total_flipped).
MakeMove(g, r, c, player) ==
  IF << r, c >> \notin ValidMoveSet(g.board, player)
  THEN [game |-> g, isFalse |-> TRUE, ret |-> 0]
  ELSE Moved(g, player, Placed(g, r, c, player))

Count(board, v) == Cardinality({ m \in Cells : board[m[1]][m[2]] = v })

\* What the positional loop of evaluate_board adds for cell (r, c).
CellScore(board, r, c) ==
  IF board[r][c] = 1 THEN Weight(r, c)
  ELSE IF board[r][c] = -1 THEN 0 - Weight(r, c)
  ELSE 0

\* The sum the positional loops make over the cells lo .. hi, counted row by
\* row; the sum is taken by halves.
RECURSIVE PosSum(_, _, _)
PosSum(board, lo, hi) ==
  IF lo = hi THEN CellScore(board, lo \div BOARD_SIZE, lo % BOARD_SIZE)
  ELSE PosSum(board, lo, (lo + hi) \div 2) + PosSum(board, (lo + hi) \div 2 + 1, hi)

\* pos_score of evaluate_board
PosScore(board) == PosSum(board, 0, BOARD_SIZE * BOARD_SIZE - 1)

\* black_moves - white_moves of evaluate_board
Mobility(board) == Cardinality(ValidMoveSet(board, 1)) - Cardinality(ValidMoveSet(board, -1))

\* evaluate_board with the mobility term weighted 2 for either player.
EvaluateBoardLopsided(board, player) ==
  (Count(board, 1) - Count(board, -1)) * (IF player = 1 THEN 1 ELSE -1)
    + Mobility(board) * 2
    + PosScore(board) * (IF player = 1 THEN 1 ELSE -1)

EvaluateBoard(board, player) ==
  (Count(board, 1) - Count(board, -1)) * (IF player = 1 THEN 1 ELSE -1)
    + Mobility(board) * (IF player = 1 THEN 2 ELSE -2)
    + PosScore(board) * (IF player = 1 THEN 1 ELSE -1)

\* is_terminal looking at the side to move only.
IsTerminalOneSide(g) == ValidMoveSet(g.board, g.current_player) = {}

IsTerminal(g) ==
  /\ ValidMoveSet(g.board, g.current_player) = {}
  /\ ValidMoveSet(g.board, 0 - g.current_player) = {}

\* The comparison get_winner makes of the two counts.
Winner(black, white) == IF black > white THEN 1 ELSE IF white > black THEN -1 ELSE 0

GetWinner(g) == Winner(Count(g.board, 1), Count(g.board, -1))

\* The positions of the bits of a 64-bit value.
ZobristBits == 0 .. 63

\* The values zobrist_key XORs into h, each with the place it comes from: one
\* for every piece on the board and one more when White is to move.
ZobristTerms(g) ==
  { << m, ZOBRIST_TABLE[m[1] + 1][m[2] + 1][IF g.board[m[1]][m[2]] = 1 THEN 1 ELSE 2] >> :
      m \in { x \in Cells : g.board[x[1]][x[2]] # 0 } }
    \cup (IF g.current_player = -1 THEN { << None, ZOBRIST_PLAYER >> } ELSE {})

\* h after h ^= v for every term, on 64-bit values written as sets of
\* one-bits: the bits that are set in an odd number of the terms.
XorAll(terms) == { b \in ZobristBits : Cardinality({ t \in terms : b \in t[2] }) % 2 = 1 }

ZobristKey(g) == XorAll(ZobristTerms(g))
Corners == { << 0, 0 >>, << 0, 7 >>, << 7, 0 >>, << 7, 7 >> }

\* The score order_moves gives move m: the trial make_move runs on a deep copy.
MoveScore(g, m, player) ==
  (IF m \in Corners THEN 10000 ELSE 0)
    + MakeMove(g, m[1], m[2], player).ret * 10
    + Weight(m[1], m[2])

\* scored, the list order_moves builds, as the set of its entries
\* (place in the list, move, score).
ScoredMoves(g, moves, player) ==
  { << k, moves[k], MoveScore(g, moves[k], player) >> : k \in DOMAIN moves }

\* That number for a descending sort that puts the later of two entries of
\* equal score first (scored.sort(key=score) and then scored.reverse()).
AheadUnstable(scored, t) ==
  Cardinality({ u \in scored : u[3] > t[3] \/ (u[3] = t[3] /\ u[1] > t[1]) })

\* That number for scored.sort(key=score), without reverse=True.
AheadAscending(scored, t) ==
  Cardinality({ u \in scored : u[3] < t[3] \/ (u[3] = t[3] /\ u[1] < t[1]) })

\* The number of entries that scored.sort(key=score, reverse=True) puts
\* before entry t: the sort is descending and stable.
Ahead(scored, t) ==
  Cardinality({ u \in scored : u[3] > t[3] \/ (u[3] = t[3] /\ u[1] < t[1]) })

\* [m for (m, _) in scored] after the sort
Sorted(scored) ==
  [p \in 1 .. Cardinality(scored) |-> (CHOOSE t \in scored : Ahead(scored, t) = p - 1)[2]]

OrderMoves(g, moves, player) == Sorted(ScoredMoves(g, moves, player))

\* The search context s: s.tt is the table TT, s.left the number of
\* time_up() calls that still answer False (-1: the limit is never reached),
\* s.calls the number of minimax_ab calls made, s.up whether some time_up()
\* call has answered True, s.stale the keys of the entries of TT written
\* after a time_up() call answered True, s.late the number of entries with
\* such a key that minimax_ab has returned the value of.  time_up() answers True for good once it has
\* (perf_counter is monotonic).
TimeUp(s) == s.left = 0

\* The context after a time_up() call of a timer that answers True once and
\* False from then on.
PolledOnce(s) ==
  [s EXCEPT !.left = IF @ > 0 THEN @ - 1 ELSE -1, !.up = @ \/ (s.left = 0)]

\* The context after one time_up() call.
Polled(s) ==
  [s EXCEPT !.left = IF @ > 0 THEN @ - 1 ELSE @, !.up = @ \/ (s.left = 0)]

\* The context after the time check at the entry of minimax_ab.
Entered(s) == [Polled(s) EXCEPT !.calls = @ + 1]

\* That test without the comparison of depths.
TTHitAnyDepth(tt, key, depth) == key \in DOMAIN tt

\* The test minimax_ab makes of the entry TT holds under key.
TTHit(tt, key, depth) == key \in DOMAIN tt /\ tt[key][1] >= depth

\* TT.setdefault(key, (depth, val)): an entry already there is kept.
StoreIfAbsent(s, key, depth, val) ==
  IF key \in DOMAIN s.tt THEN s
  ELSE [s EXCEPT !.tt = (key :> << depth, val >>) @@ @,
                 !.stale = IF s.up THEN @ \cup {key} ELSE @ \ {key}]

\* TT[key] = (depth, val)
Store(s, key, depth, val) ==
  [s EXCEPT !.tt = (key :> << depth, val >>) @@ @,
            !.stale = IF s.up THEN @ \cup {key} ELSE @ \ {key}]

\* return tt_value
Hit(s, key) ==
  [val |-> s.tt[key][2], s |-> [s EXCEPT !.late = IF key \in s.stale THEN @ + 1 ELSE @]]

\* TT[key] = (depth, val); return val
StoredReturn(s, key, depth, val) == [val |-> val, s |-> Store(s, key, depth, val)]

RECURSIVE MinimaxAB(_, _, _, _, _)
RECURSIVE MaxLoop(_, _, _, _, _, _, _, _, _)
RECURSIVE MinLoop(_, _, _, _, _, _, _, _, _)

\* The recursive call the maximising loop makes for move i.
MaxTry(g, depth, moves, i, alpha, beta, s) ==
  MinimaxAB(MakeMove(g, moves[i][1], moves[i][2], 1).game, depth - 1, alpha, beta, s)

\* The loop of the maximising branch of minimax_ab once the recursive call
\* for move i has returned r, value and alpha being those before that call,
\* and the two statements after the loop.
MaxLoop(g, depth, key, moves, i, value, alpha, beta, r) ==
  LET value2 == IF r.val > value THEN r.val ELSE value
      alpha2 == IF value2 > alpha THEN value2 ELSE alpha
  IN  IF i = Len(moves) \/ alpha2 >= beta
      THEN StoredReturn(r.s, key, depth, value2)
      ELSE MaxLoop(g, depth, key, moves, i + 1, value2, alpha2, beta,
                   MaxTry(g, depth, moves, i + 1, alpha2, beta, r.s))

\* The recursive call the minimising loop makes for move i.
MinTry(g, depth, moves, i, alpha, beta, s) ==
  MinimaxAB(MakeMove(g, moves[i][1], moves[i][2], -1).game, depth - 1, alpha, beta, s)

\* The loop of the minimising branch, likewise.
MinLoop(g, depth, key, moves, i, value, alpha, beta, r) ==
  LET value2 == IF r.val < value THEN r.val ELSE value
      beta2 == IF value2 < beta THEN value2 ELSE beta
  IN  IF i = Len(moves) \/ alpha >= beta2
      THEN StoredReturn(r.s, key, depth, value2)
      ELSE MinLoop(g, depth, key, moves, i + 1, value2, alpha, beta2,
                   MinTry(g, depth, moves, i + 1, alpha, beta2, r.s))

\* minimax_ab from the move ordering on, ordered being the ordered moves.
Loops(g, depth, alpha, beta, s, key, ordered) ==
  IF g.current_player = 1
  THEN MaxLoop(g, depth, key, ordered, 1, 0 - INF, alpha, beta,
               MaxTry(g, depth, ordered, 1, alpha, beta, s))
  ELSE MinLoop(g, depth, key, ordered, 1, INF, alpha, beta,
               MinTry(g, depth, ordered, 1, alpha, beta, s))

\* The skip-turn branch of minimax_ab once its recursive call has returned r.
Skipped(key, depth, r) == StoredReturn(r.s, key, depth, r.val)

\* minimax_ab from moves = game.get_valid_moves(game.current_player) on.
Expand(g, depth, alpha, beta, s, key, moves) ==
  IF moves = << >>
  THEN Skipped(key, depth,
               MinimaxAB([g EXCEPT !.current_player = 0 - @], depth, alpha, beta, s))
  ELSE Loops(g, depth, alpha, beta, s, key, OrderMoves(g, moves, g.current_player))

\* minimax_ab from the table lookup on, key being game.zobrist_key() and s
\* the context after the time check.
Lookup(g, depth, alpha, beta, s, key) ==
  IF TTHit(s.tt, key, depth) THEN Hit(s, key)
  ELSE IF depth = 0 \/ IsTerminal(g)
  THEN StoredReturn(s, key, depth, EvaluateBoard(g.board, 1))
  ELSE Expand(g, depth, alpha, beta, s, key, GetValidMoves(g.board, g.current_player))

\* minimax_ab with the table lookup as its first step, without the time check.
MinimaxABUntimed(g, depth, alpha, beta, s) ==
  Lookup(g, depth, alpha, beta, Entered(s), ZobristKey(g))

\* minimax_ab(game, depth, alpha, beta, timer) in the search context s: the
\* value returned and the context after the call.
MinimaxAB(g, depth, alpha, beta, s) ==
  IF TimeUp(s) THEN [val |-> EvaluateBoard(g.board, 1), s |-> Entered(s)]
  ELSE Lookup(g, depth, alpha, beta, Entered(s), ZobristKey(g))

DEPTH_CAP == 60

\* newg = game in place of the deep copy: the move is made on the caller's game.
RootTryAliased(g, m) ==
  [caller |-> MakeMove(g, m[1], m[2], -1).game, newg |-> MakeMove(g, m[1], m[2], -1).game]

\* newg = copy.deepcopy(game); newg.make_move(r, c, -1) at the root of ai_move:
\* the caller's game after the two statements, and newg.
RootTry(g, m) ==
  [caller |-> g, newg |-> MakeMove(g, m[1], m[2], -1).game]

\* The for loop of ai_move over the ordered root moves, from move i on: the
\* caller's game, current_best_move, current_best_score, the context and the
\* scores the loop saw.
RECURSIVE RootLoop(_, _, _, _, _, _, _, _)
RootLoop(g, ordered, i, depth, cur_move, cur_score, s, scores) ==
  LET Scored(caller, r) ==
        RootLoop(caller, ordered, i + 1, depth,
                 IF r.val < cur_score THEN ordered[i] ELSE cur_move,
                 IF r.val < cur_score THEN r.val ELSE cur_score,
                 r.s, Append(scores, << ordered[i], r.val >>))
      Tried(t) == Scored(t.caller, MinimaxAB(t.newg, depth - 1, 0 - INF, INF, Polled(s)))
  IN  IF i > Len(ordered)
      THEN [game |-> g, move |-> cur_move, score |-> cur_score, s |-> s,
            scores |-> scores]
      ELSE IF TimeUp(s)
      THEN [game |-> g, move |-> cur_move, score |-> cur_score, s |-> Polled(s),
            scores |-> scores]
      ELSE Tried(RootTry(g, ordered[i]))

\* That test without the time check.
AcceptLate(s, cur_move) == cur_move # None

\* if not timer.time_up() and current_best_move is not None
Accept(s, cur_move) == ~TimeUp(s) /\ cur_move # None

\* best_move = moves[-1]
LastMove(moves) == moves[Len(moves)]

\* best_move = None
NoFirstMove(moves) == None

\* best_move = moves[0]
FirstMove(moves) == moves[1]

\* That pass with the cap tested on the depth of the pass just made.
AiIterationCappedLate(g, a, s) ==
  LET Done(rl) ==
        [game |-> rl.game,
         ai |-> [a EXCEPT !.best_move = IF Accept(rl.s, rl.move) THEN rl.move ELSE @,
                          !.best_score = IF Accept(rl.s, rl.move) THEN rl.score ELSE @,
                          !.depth = @ + 1],
         s |-> Polled(rl.s), stop |-> a.depth > DEPTH_CAP, ran |-> TRUE,
         move |-> rl.move, scores |-> rl.scores]
  IN  IF TimeUp(s)
      THEN [game |-> g, ai |-> a, s |-> Polled(s), stop |-> TRUE, ran |-> FALSE,
            move |-> None, scores |-> << >>]
      ELSE Done(RootLoop(g, OrderMoves(g, a.moves, g.current_player), 1, a.depth,
                         None, INF, Polled(s), << >>))

\* One pass of the while loop of ai_move with locals a on the caller's game g:
\* stop tells whether the loop is left.
AiIteration(g, a, s) ==
  LET Done(rl) ==
        [game |-> rl.game,
         ai |-> [a EXCEPT !.best_move = IF Accept(rl.s, rl.move) THEN rl.move ELSE @,
                          !.best_score = IF Accept(rl.s, rl.move) THEN rl.score ELSE @,
                          !.depth = @ + 1],
         s |-> Polled(rl.s), stop |-> a.depth + 1 > DEPTH_CAP, ran |-> TRUE,
         move |-> rl.move, scores |-> rl.scores]
  IN  IF TimeUp(s)
      THEN [game |-> g, ai |-> a, s |-> Polled(s), stop |-> TRUE, ran |-> FALSE,
            move |-> None, scores |-> << >>]
      ELSE Done(RootLoop(g, OrderMoves(g, a.moves, g.current_player), 1, a.depth,
                         None, INF, Polled(s), << >>))

\* Python's list index i on a list of BOARD_SIZE elements: a negative index
\* counts from the end, an index outside [-BOARD_SIZE, BOARD_SIZE) raises.
PyIndexOK(i) == i >= 0 - BOARD_SIZE /\ i < BOARD_SIZE

PyIndex(i) == IF i < 0 THEN i + BOARD_SIZE ELSE i

\* The inner while loop of make_move in the web and drop-down copies, which
\* has no bounds test: raised tells whether board[nr][nc] raised IndexError,
\* outside whether the loop has read board[nr][nc] with nr or nc off the
\* board (a negative index reads from the other end of the list).
RECURSIVE FlipRayNoTest(_, _, _, _, _, _)
FlipRayNoTest(acc, nr, nc, dr, dc, player) ==
  IF ~PyIndexOK(nr) \/ ~PyIndexOK(nc) THEN [acc EXCEPT !.raised = TRUE, !.outside = TRUE]
  ELSE IF acc.board[PyIndex(nr)][PyIndex(nc)] # 0 - player
  THEN [acc EXCEPT !.outside = @ \/ ~InBoard(nr, nc)]
  ELSE FlipRayNoTest([acc EXCEPT !.board[PyIndex(nr)][PyIndex(nc)] = player,
                                 !.outside = @ \/ ~InBoard(nr, nc)],
                     nr + dr, nc + dc, dr, dc, player)

\* That pass without the test of the direction.
FlipDirUntested(acc, r, c, d, player) ==
  FlipRayNoTest(acc, r + d[1], c + d[2], d[1], d[2], player)

\* One pass of the for loop of that make_move: direction d.
FlipDirNoTest(acc, r, c, d, player) ==
  IF IsValidFlip(acc.board, r, c, d[1], d[2], player)
  THEN FlipRayNoTest(acc, r + d[1], c + d[2], d[1], d[2], player)
  ELSE acc

RECURSIVE FlipDirsNoTest(_, _, _, _, _)
FlipDirsNoTest(acc, r, c, player, i) ==
  IF i > Len(Directions) \/ acc.raised THEN acc
  ELSE FlipDirsNoTest(FlipDirNoTest(acc, r, c, Directions[i], player), r, c, player, i + 1)

\* What that make_move leaves once the flips f are done or have raised.
WebMoved(g, player, f) ==
  [game |-> IF f.raised THEN [g EXCEPT !.board = f.board]
            ELSE [g EXCEPT !.board = f.board, !.current_player = 0 - player],
   ret |-> TRUE, raised |-> f.raised, outside |-> f.outside]

\* make_move of the web and drop-down copies: it returns True or False.
WebMakeMove(g, r, c, player) ==
  IF << r, c >> \notin ValidMoveSet(g.board, player)
  THEN [game |-> g, ret |-> FALSE, raised |-> FALSE, outside |-> FALSE]
  ELSE WebMoved(g, player,
                FlipDirsNoTest([board |-> [g.board EXCEPT ![r][c] = player],
                                raised |-> FALSE, outside |-> FALSE], r, c, player, 1))

Max(a, b) == IF a >= b THEN a ELSE b

Min(a, b) == IF a <= b THEN a ELSE b

\* The skip-turn branch without its last assignment.
SetBackNot(current, r) == r

\* game.current_player = current, made on the game the recursive call of the
\* skip-turn branch has left: r is what that call returned.
SetBack(current, r) == [r EXCEPT !.game = [@ EXCEPT !.current_player = current]]

\* game.current_player = -game.current_player, likewise.
Reverted(r) == [r EXCEPT !.game = [@ EXCEPT !.current_player = 0 - @]]

RECURSIVE WebMinimax(_, _, _, _, _, _)
RECURSIVE WebLoop(_, _, _, _, _, _, _, _, _)

\* The recursive call either loop of the web minimax makes for move i, n
\* being the number of minimax calls made so far.
WebTry(g, depth, moves, i, alpha, beta, maximizing, n) ==
  WebMinimax(WebMakeMove(g, moves[i][1], moves[i][2], g.current_player).game,
             depth - 1, alpha, beta, ~maximizing, n)

\* The for loop of either branch of the web minimax once the recursive call
\* for move i has returned r; best is max_eval or min_eval before that call.
WebLoop(g, depth, moves, i, best, alpha, beta, maximizing, r) ==
  LET best2 == IF maximizing THEN Max(best, r.val) ELSE Min(best, r.val)
      alpha2 == IF maximizing THEN Max(alpha, r.val) ELSE alpha
      beta2 == IF maximizing THEN beta ELSE Min(beta, r.val)
  IN  IF i = Len(moves) \/ beta2 <= alpha2 THEN [val |-> best2, n |-> r.n, game |-> g]
      ELSE WebLoop(g, depth, moves, i + 1, best2, alpha2, beta2, maximizing,
                   WebTry(g, depth, moves, i + 1, alpha2, beta2, maximizing, r.n))

\* The web minimax from moves = game.get_valid_moves(game.current_player)
\* on: the value, the number of calls and the game passed in as the call
\* leaves it.  The pass branch flips current_player of its argument in place
\* and sets it back; the loops work on deep copies.
WebExpand(g, depth, alpha, beta, maximizing, n, moves) ==
  IF Len(moves) = 0
  THEN SetBack(g.current_player,
               WebMinimax([g EXCEPT !.current_player = 0 - @], depth, alpha, beta,
                          ~maximizing, n))
  ELSE WebLoop(g, depth, moves, 1, IF maximizing THEN 0 - INF ELSE INF, alpha, beta,
               maximizing, WebTry(g, depth, moves, 1, alpha, beta, maximizing, n))

\* minimax of the web copy: the value and the number of calls made.
WebMinimax(g, depth, alpha, beta, maximizing, n) ==
  IF depth = 0 \/ IsTerminal(g)
  THEN [val |-> EvaluateBoard(g.board, 1), n |-> n + 1, game |-> g]
  ELSE WebExpand(g, depth, alpha, beta, maximizing, n + 1,
                 GetValidMoves(g.board, g.current_player))

WEB_DEPTH == 4

\* The minimax call the web ai_move makes for move i.
WebRootTry(g, moves, i, depth, n) ==
  WebMinimax(WebMakeMove(g, moves[i][1], moves[i][2], g.current_player).game,
             depth - 1, 0 - INF, INF, TRUE, n)

\* The for loop of the web ai_move once the minimax call for move i has
\* returned r.
RECURSIVE WebRootLoop(_, _, _, _, _, _, _, _)
WebRootLoop(g, moves, i, depth, best_move, best_score, scores, r) ==
  LET Kept(move, score) ==
        IF i = Len(moves)
        THEN [move |-> move, score |-> score, n |-> r.n,
              scores |-> Append(scores, << moves[i], r.val >>)]
        ELSE WebRootLoop(g, moves, i + 1, depth, move, score,
                         Append(scores, << moves[i], r.val >>),
                         WebRootTry(g, moves, i + 1, depth, r.n))
  IN  IF r.val < best_score THEN Kept(moves[i], r.val) ELSE Kept(best_move, best_score)

\* The web ai_move up to the end of its for loop, moves being the legal moves.
WebRoot(g, depth, moves) ==
  IF moves = << >> THEN [move |-> None, score |-> INF, n |-> 0, scores |-> << >>]
  ELSE WebRootLoop(g, moves, 1, depth, None, INF, << >>, WebRootTry(g, moves, 1, depth, 0))

\* if best_move: game.make_move(best_move[0], best_move[1], game.current_player)
WebApply(g, rl) ==
  [game |-> IF rl.move # None
            THEN WebMakeMove(g, rl.move[1], rl.move[2], g.current_player).game
            ELSE g,
   move |-> rl.move, n |-> rl.n, scores |-> rl.scores]

\* ai_move of the web copy on the caller's game g: the game after the call,
\* the move returned, the number of minimax calls and the root scores.
WebAiMove(g, depth) ==
  WebApply(g, WebRoot(g, depth, GetValidMoves(g.board, g.current_player)))

\* evaluate_board of the drop-down copy: pieces and mobility only.
DropDownEvaluateBoard(board, player) ==
  (Count(board, 1) - Count(board, -1)) * (IF player = 1 THEN 1 ELSE -1)
    + Mobility(board) * (IF player = 1 THEN 2 ELSE -2)

RECURSIVE DropDownMinimax(_, _, _, _, _, _)
RECURSIVE DropDownLoop(_, _, _, _, _, _, _, _, _)

\* The recursive call either loop of the drop-down minimax makes for move i.
DropDownTry(g, depth, moves, i, alpha, beta, maximizing, n) ==
  DropDownMinimax(WebMakeMove(g, moves[i][1], moves[i][2], g.current_player).game,
                  depth - 1, alpha, beta, ~maximizing, n)

\* The for loop of either branch of the drop-down minimax once the recursive
\* call for move i has returned r.
DropDownLoop(g, depth, moves, i, best, alpha, beta, maximizing, r) ==
  LET best2 == IF maximizing THEN Max(best, r.val) ELSE Min(best, r.val)
      alpha2 == IF maximizing THEN Max(alpha, r.val) ELSE alpha
      beta2 == IF maximizing THEN beta ELSE Min(beta, r.val)
  IN  IF i = Len(moves) \/ beta2 <= alpha2 THEN [val |-> best2, n |-> r.n, game |-> g]
      ELSE DropDownLoop(g, depth, moves, i + 1, best2, alpha2, beta2, maximizing,
                        DropDownTry(g, depth, moves, i + 1, alpha2, beta2, maximizing, r.n))

\* The drop-down minimax from the list of moves on: the pass branch keeps
\* maximizing_player.
DropDownExpand(g, depth, alpha, beta, maximizing, n, moves) ==
  IF moves = << >>
  THEN Reverted(DropDownMinimax([g EXCEPT !.current_player = 0 - @], depth, alpha, beta,
                                maximizing, n))
  ELSE DropDownLoop(g, depth, moves, 1, IF maximizing THEN 0 - INF ELSE INF, alpha, beta,
                    maximizing, DropDownTry(g, depth, moves, 1, alpha, beta, maximizing, n))

\* minimax of the drop-down copy.
DropDownMinimax(g, depth, alpha, beta, maximizing, n) ==
  IF depth = 0 \/ IsTerminal(g)
  THEN [val |-> DropDownEvaluateBoard(g.board, 1), n |-> n + 1, game |-> g]
  ELSE DropDownExpand(g, depth, alpha, beta, maximizing, n + 1,
                      GetValidMoves(g.board, g.current_player))

DROPDOWN_DEPTH == 4

\* The minimax call the drop-down ai_move makes for move i.
DropDownRootTry(g, moves, i, depth, n) ==
  DropDownMinimax(WebMakeMove(g, moves[i][1], moves[i][2], g.current_player).game,
                  depth - 1, 0 - INF, INF, FALSE, n)

\* The for loop of the drop-down ai_move once the minimax call for move i
\* has returned r.
RECURSIVE DropDownRootLoop(_, _, _, _, _, _, _, _)
DropDownRootLoop(g, moves, i, depth, best_move, best_score, scores, r) ==
  LET Kept(move, score) ==
        IF i = Len(moves)
        THEN [move |-> move, score |-> score, n |-> r.n,
              scores |-> Append(scores, << moves[i], r.val >>)]
        ELSE DropDownRootLoop(g, moves, i + 1, depth, move, score,
                              Append(scores, << moves[i], r.val >>),
                              DropDownRootTry(g, moves, i + 1, depth, r.n))
  IN  IF r.val > best_score THEN Kept(moves[i], r.val) ELSE Kept(best_move, best_score)

\* That ai_move treating a position without a legal move as its minimax
\* does: the turn is skipped and the search goes on.
DropDownRootSkipping(g, depth, moves) ==
  IF moves = << >>
  THEN [move |-> None, score |-> 0 - INF,
        n |-> DropDownMinimax([g EXCEPT !.current_player = 0 - @], depth, 0 - INF, INF,
                              FALSE, 0).n,
        scores |-> << >>]
  ELSE DropDownRootLoop(g, moves, 1, depth, None, 0 - INF, << >>,
                        DropDownRootTry(g, moves, 1, depth, 0))

\* The drop-down ai_move up to the end of its for loop.
DropDownRoot(g, depth, moves) ==
  IF moves = << >> THEN [move |-> None, score |-> 0 - INF, n |-> 0, scores |-> << >>]
  ELSE DropDownRootLoop(g, moves, 1, depth, None, 0 - INF, << >>,
                        DropDownRootTry(g, moves, 1, depth, 0))

\* ai_move of the drop-down copy on the caller's game g.
DropDownAiMove(g, depth) ==
  WebApply(g, DropDownRoot(g, depth, GetValidMoves(g.board, g.current_player)))

RECURSIVE GridMinimax(_, _, _, _, _, _)
RECURSIVE GridLoop(_, _, _, _, _, _, _, _, _)

\* The recursive call either loop of the grid minimax makes for move i; the
\* grid make_move flips as the CLI one does.
GridTry(g, depth, moves, i, alpha, beta, maximizing, n) ==
  GridMinimax(MakeMove(g, moves[i][1], moves[i][2], g.current_player).game,
              depth - 1, alpha, beta, ~maximizing, n)

\* The for loop of either branch of the grid minimax once the recursive call
\* for move i has returned r.
GridLoop(g, depth, moves, i, best, alpha, beta, maximizing, r) ==
  LET best2 == IF maximizing THEN Max(best, r.val) ELSE Min(best, r.val)
      alpha2 == IF maximizing THEN Max(alpha, r.val) ELSE alpha
      beta2 == IF maximizing THEN beta ELSE Min(beta, r.val)
  IN  IF i = Len(moves) \/ beta2 <= alpha2 THEN [val |-> best2, n |-> r.n, game |-> g]
      ELSE GridLoop(g, depth, moves, i + 1, best2, alpha2, beta2, maximizing,
                    GridTry(g, depth, moves, i + 1, alpha2, beta2, maximizing, r.n))

\* The grid minimax from the list of moves on: a skipped turn goes on with
\* depth - 1.
GridExpand(g, depth, alpha, beta, maximizing, n, moves) ==
  IF moves = << >>
  THEN IF ValidMoveSet(g.board, 0 - g.current_player) = {}
       THEN [val |-> DropDownEvaluateBoard(g.board, 1), n |-> n, game |-> g]
       ELSE SetBack(g.current_player,
                    GridMinimax([g EXCEPT !.current_player = 0 - @], depth - 1, alpha, beta,
                                ~maximizing, n))
  ELSE GridLoop(g, depth, moves, 1, IF maximizing THEN 0 - INF ELSE INF, alpha, beta,
                maximizing, GridTry(g, depth, moves, 1, alpha, beta, maximizing, n))

\* minimax of the grid copy, whose evaluate_board is that of the drop-down
\* copy.
GridMinimax(g, depth, alpha, beta, maximizing, n) ==
  IF depth = 0 \/ IsTerminal(g)
  THEN [val |-> DropDownEvaluateBoard(g.board, 1), n |-> n + 1, game |-> g]
  ELSE GridExpand(g, depth, alpha, beta, maximizing, n + 1,
                  GetValidMoves(g.board, g.current_player))

NewGame == [board |-> INITIAL_BOARD, current_player |-> 1, game_over |-> FALSE]

\* The module global INITIAL_BOARD before any game is made.
Untouched == [board |-> INITIAL_BOARD, aliased |-> FALSE]

\* Othello() with self.board = INITIAL_BOARD, without the deep copy.
OthelloSharing(shared) ==
  [game |-> [board |-> shared.board, current_player |-> 1, game_over |-> FALSE],
   aliased |-> TRUE]

\* Othello(): self.board = copy.deepcopy(INITIAL_BOARD) is a list of its own.
Othello(shared) ==
  [game |-> [board |-> shared.board, current_player |-> 1, game_over |-> FALSE],
   aliased |-> FALSE]

\* The recorded make_move calls of hist from call i to call j, once call i
\* has returned m: they are made one after another up to the first that
\* fails.
RECURSIVE ReplayCalls(_, _, _, _)
ReplayCalls(m, hist, i, j) ==
  IF m.isFalse \/ i = j THEN [game |-> m.game, ok |-> ~m.isFalse]
  ELSE ReplayCalls(MakeMove(m.game, hist[i + 1][1], hist[i + 1][2], hist[i + 1][3]),
                   hist, i + 1, j)

\* The calls i .. n of hist made after those that left done, a row of
\* BOARD_SIZE calls at a time.
RECURSIVE Replay(_, _, _, _)
Replay(done, hist, i, n) ==
  IF i > n \/ ~done.ok THEN done.game
  ELSE Replay(ReplayCalls(MakeMove(done.game, hist[i][1], hist[i][2], hist[i][3]), hist, i,
                          IF i + BOARD_SIZE - 1 < n THEN i + BOARD_SIZE - 1 ELSE n),
              hist, i + BOARD_SIZE, n)


\* Recorded games of the console program (Black: random legal moves, White:
\* the moves ai_move returned), each up to a late position.  GAME_PLAY ends
\* with White to move and two legal moves, GAME_PASS with White to move and
\* no legal move while Black has one, GAME_OVER with the board full, GAME_BUG
\* with Black to move and five empty cells, GAME_FOUR with White to move,
\* four empty cells and four legal moves.
GAME_PLAY ==
  << <<4, 5, 1>>, <<5, 3, -1>>, <<3, 2, 1>>, <<2, 1, -1>>, <<6, 2, 1>>, <<4, 6, -1>>,
     <<5, 2, 1>>, <<2, 4, -1>>, <<5, 5, 1>>, <<6, 5, -1>>, <<2, 5, 1>>, <<5, 4, -1>>,
     <<6, 6, 1>>, <<6, 1, -1>>, <<2, 3, 1>>, <<1, 2, -1>>, <<2, 2, 1>>, <<6, 4, -1>>,
     <<0, 2, 1>>, <<0, 1, -1>>, <<4, 7, 1>>, <<7, 7, -1>>, <<5, 1, 1>>, <<3, 7, -1>>,
     <<1, 3, 1>>, <<1, 1, -1>>, <<6, 0, 1>>, <<0, 4, -1>>, <<7, 5, 1>>, <<7, 4, -1>>,
     <<2, 7, 1>>, <<7, 1, -1>>, <<7, 3, 1>>, <<1, 5, -1>>, <<4, 1, 1>>, <<3, 1, -1>>,
     <<2, 0, 1>>, <<0, 0, -1>>, <<7, 0, 1>>, <<0, 3, -1>>, <<6, 7, 1>>, <<1, 4, -1>>,
     <<0, 5, 1>>, <<5, 7, -1>>, <<7, 2, 1>>, <<0, 6, -1>>, <<6, 3, 1>>, <<3, 0, -1>>,
     <<4, 0, 1>>, <<1, 7, -1>>, <<4, 2, 1>>, <<7, 6, -1>>, <<5, 6, 1>>, <<5, 0, -1>>,
     <<3, 5, 1>>, <<1, 0, -1>>, <<3, 6, 1>> >>

GAME_PASS ==
  << <<2, 3, 1>>, <<2, 4, -1>>, <<1, 5, 1>>, <<1, 2, -1>>, <<5, 5, 1>>, <<5, 4, -1>>,
     <<3, 5, 1>>, <<6, 6, -1>>, <<1, 3, 1>>, <<4, 2, -1>>, <<5, 2, 1>>, <<6, 2, -1>>,
     <<6, 4, 1>>, <<1, 4, -1>>, <<0, 2, 1>>, <<7, 4, -1>>, <<6, 5, 1>>, <<7, 5, -1>>,
     <<4, 1, 1>>, <<4, 0, -1>>, <<0, 5, 1>>, <<0, 4, -1>>, <<5, 3, 1>>, <<4, 6, -1>>,
     <<5, 6, 1>>, <<5, 7, -1>>, <<6, 1, 1>>, <<6, 0, -1>>, <<2, 6, 1>>, <<3, 7, -1>>,
     <<0, 3, 1>>, <<2, 2, -1>>, <<4, 5, 1>>, <<5, 1, -1>>, <<1, 6, 1>>, <<0, 6, -1>>,
     <<1, 1, 1>>, <<0, 1, -1>>, <<7, 0, 1>>, <<7, 1, -1>>, <<7, 6, 1>>, <<2, 1, -1>>,
     <<3, 2, 1>>, <<7, 7, -1>>, <<6, 7, 1>>, <<3, 1, -1>>, <<6, 3, 1>>, <<7, 3, -1>>,
     <<4, 7, 1>>, <<2, 5, -1>>, <<3, 6, 1>>, <<2, 7, -1>>, <<5, 0, 1>>, <<3, 0, -1>>,
     <<2, 0, 1>>, <<1, 0, -1>>, <<0, 0, 1>> >>

GAME_OVER ==
  << <<5, 4, 1>>, <<5, 3, -1>>, <<3, 2, 1>>, <<2, 3, -1>>, <<2, 2, 1>>, <<5, 5, -1>>,
     <<5, 2, 1>>, <<2, 4, -1>>, <<2, 5, 1>>, <<2, 1, -1>>, <<6, 6, 1>>, <<1, 2, -1>>,
     <<6, 4, 1>>, <<7, 7, -1>>, <<4, 6, 1>>, <<7, 4, -1>>, <<4, 2, 1>>, <<6, 2, -1>>,
     <<6, 1, 1>>, <<1, 5, -1>>, <<6, 3, 1>>, <<7, 1, -1>>, <<1, 4, 1>>, <<0, 4, -1>>,
     <<7, 2, 1>>, <<6, 0, -1>>, <<0, 2, 1>>, <<0, 1, -1>>, <<1, 3, 1>>, <<3, 1, -1>>,
     <<5, 0, 1>>, <<4, 0, -1>>, <<7, 0, 1>>, <<3, 7, -1>>, <<2, 0, 1>>, <<1, 1, -1>>,
     <<7, 5, 1>>, <<6, 5, -1>>, <<4, 1, 1>>, <<0, 3, -1>>, <<6, 7, 1>>, <<5, 1, -1>>,
     <<3, 5, 1>>, <<5, 7, -1>>, <<0, 6, 1>>, <<7, 3, -1>>, <<3, 0, 1>>, <<4, 5, -1>>,
     <<5, 6, 1>>, <<7, 6, -1>>, <<3, 6, 1>>, <<0, 5, -1>>, <<4, 7, 1>>, <<0, 7, -1>>,
     <<1, 0, 1>>, <<2, 6, -1>>, <<1, 7, 1>>, <<2, 7, -1>>, <<0, 0, 1>>, <<1, 6, 1>> >>

GAME_BUG ==
  << <<5, 4, 1>>, <<5, 3, -1>>, <<3, 2, 1>>, <<2, 3, -1>>, <<1, 2, 1>>, <<5, 5, -1>>,
     <<6, 3, 1>>, <<2, 4, -1>>, <<2, 5, 1>>, <<6, 2, -1>>, <<6, 1, 1>>, <<7, 1, -1>>,
     <<6, 5, 1>>, <<6, 0, -1>>, <<5, 6, 1>>, <<6, 4, -1>>, <<7, 3, 1>>, <<7, 4, -1>>,
     <<7, 5, 1>>, <<2, 1, -1>>, <<5, 2, 1>>, <<0, 3, -1>>, <<7, 2, 1>>, <<5, 1, -1>>,
     <<7, 0, 1>>, <<4, 2, -1>>, <<4, 0, 1>>, <<1, 5, -1>>, <<0, 5, 1>>, <<1, 4, -1>>,
     <<4, 1, 1>>, <<0, 4, -1>>, <<1, 0, 1>>, <<3, 1, -1>>, <<3, 0, 1>>, <<2, 0, -1>>,
     <<3, 5, 1>>, <<0, 0, -1>>, <<4, 5, 1>>, <<1, 1, -1>>, <<5, 0, 1>>, <<4, 6, -1>>,
     <<0, 1, 1>>, <<0, 6, -1>>, <<3, 6, 1>>, <<5, 7, -1>>, <<2, 6, 1>>, <<2, 7, -1>>,
     <<1, 3, 1>>, <<4, 7, -1>>, <<1, 7, 1>>, <<0, 7, -1>>, <<1, 6, 1>>, <<3, 7, -1>>,
     <<7, 6, -1>> >>

GAME_FOUR ==
  << <<5, 4, 1>>, <<5, 3, -1>>, <<6, 2, 1>>, <<5, 5, -1>>, <<3, 2, 1>>, <<2, 4, -1>>,
     <<4, 5, 1>>, <<3, 1, -1>>, <<2, 2, 1>>, <<1, 2, -1>>, <<1, 1, 1>>, <<6, 5, -1>>,
     <<4, 0, 1>>, <<0, 0, -1>>, <<6, 3, 1>>, <<7, 1, -1>>, <<7, 6, 1>>, <<4, 6, -1>>,
     <<3, 5, 1>>, <<2, 1, -1>>, <<1, 0, 1>>, <<2, 0, -1>>, <<5, 2, 1>>, <<6, 4, -1>>,
     <<6, 1, 1>>, <<7, 4, -1>>, <<6, 6, 1>>, <<6, 0, -1>>, <<7, 5, 1>>, <<7, 7, -1>>,
     <<0, 2, 1>>, <<4, 1, -1>>, <<7, 2, 1>>, <<0, 3, -1>>, <<5, 7, 1>>, <<0, 1, -1>>,
     <<5, 1, 1>>, <<3, 7, -1>>, <<7, 3, 1>>, <<4, 2, -1>>, <<5, 0, 1>>, <<7, 0, -1>>,
     <<6, 7, 1>>, <<3, 0, -1>>, <<5, 6, 1>>, <<2, 5, -1>>, <<2, 3, 1>>, <<1, 4, -1>>,
     <<1, 3, 1>>, <<0, 4, -1>>, <<0, 5, 1>>, <<1, 5, -1>>, <<1, 6, 1>>, <<0, 6, -1>>,
     <<0, 7, -1>>, <<2, 6, 1>> >>

\* The game after the first n make_move calls of a recorded game.
At(hist, n) == Replay([game |-> NewGame, ok |-> TRUE], hist, 1, n)

NoCall ==
  [op |-> "none", before |-> NewGame, r |-> 0, c |-> 0, player |-> 0, depth |-> 0,
   limit |-> -1, result |-> None, status |-> 0, calls |-> 0, up |-> FALSE,
   clean |-> << 0, None >>, last |-> << 0, None >>, scores |-> << >>, plies |-> 0,
   failed |-> FALSE, answer |-> FALSE, moves |-> << >>, entry |-> None,
   late |-> 0, stale |-> {}, raised |-> FALSE, outside |-> FALSE]

NoLocals == [moves |-> << >>, best_move |-> None, best_score |-> INF, depth |-> 1]

\* The positions ai_move is called on: the last position of a recorded game.
AiGames == { GAME_PLAY, GAME_FOUR, GAME_PASS, GAME_OVER }

\* The largest number of time_up() calls that answer False before the time
\* limit of a call is reached, when it is reached at all.
MaxPolls == 12

\* The time limits of a call: reached after 0 .. MaxPolls polls, or never.
Limits == (0 .. MaxPolls) \cup {-1}

InitAI ==
  /\ initial = Untouched
  /\ setOrder \in SetOrders
  /\ copy \in {"cli", "web", "dropdown"}
  /\ mode = "ai"
  /\ \E hist \in AiGames : game = At(hist, Len(hist))
  /\ TT = << >>
  /\ pc = "idle"
  /\ timer = -1
  /\ ai = NoLocals
  /\ call = NoCall

\* That part of ai_move without TT.clear().
AiMoveCallKeepingTable(limit) ==
  LET Start(moves) ==
        IF moves = << >>
        THEN /\ pc' = "done"
             /\ ai' = NoLocals
        ELSE /\ pc' = "loop"
             /\ ai' = [moves |-> moves, best_move |-> FirstMove(moves),
                       best_score |-> INF, depth |-> 1]
  IN  /\ copy = "cli"
      /\ pc = "idle"
      /\ TT' = TT
      /\ timer' = limit
      /\ call' = [NoCall EXCEPT !.op = "ai_move", !.before = game, !.limit = limit,
                                !.plies = call.plies, !.stale = call.stale]
      /\ Start(GetValidMoves(game.board, game.current_player))
      /\ UNCHANGED << initial, setOrder, copy, mode, game >>

\* ai_move of the CLI copy up to its loop: the timer is started, TT is
\* cleared, and without a legal move None is returned.
AiMoveCall(limit) ==
  LET Start(moves) ==
        IF moves = << >>
        THEN /\ pc' = "done"
             /\ ai' = NoLocals
        ELSE /\ pc' = "loop"
             /\ ai' = [moves |-> moves, best_move |-> FirstMove(moves),
                       best_score |-> INF, depth |-> 1]
  IN  /\ copy = "cli"
      /\ pc = "idle"
      /\ TT' = << >>
      /\ timer' = limit
      /\ call' = [NoCall EXCEPT !.op = "ai_move", !.before = game, !.limit = limit,
                                !.plies = call.plies]
      /\ Start(GetValidMoves(game.board, game.current_player))
      /\ UNCHANGED << initial, setOrder, copy, mode, game >>

\* One pass of the while loop of the CLI ai_move.
AiIterate ==
  LET Passed(it) ==
        /\ game' = it.game
        /\ ai' = it.ai
        /\ TT' = it.s.tt
        /\ timer' = it.s.left
        /\ pc' = IF it.stop THEN "apply" ELSE "loop"
        /\ call' = [call EXCEPT
                      !.calls = it.s.calls,
                      !.up = it.s.up,
                      !.late = it.s.late,
                      !.stale = it.s.stale,
                      !.clean = IF it.ran /\ ~it.s.up THEN << ai.depth, it.move >> ELSE @,
                      !.last = IF it.ran THEN << ai.depth, it.move >> ELSE @,
                      !.scores = IF it.ran THEN it.scores ELSE @]
  IN  /\ pc = "loop"
      /\ Passed(AiIteration(game, ai, [tt |-> TT, left |-> timer, calls |-> call.calls,
                                       up |-> call.up, late |-> call.late,
                                       stale |-> call.stale]))
      /\ UNCHANGED << initial, setOrder, copy, mode >>

\* The end of the CLI ai_move: the chosen move is applied to the caller's game
\* and returned.
AiReturn ==
  /\ pc = "apply"
  /\ game' = IF ai.best_move # None
             THEN MakeMove(game, ai.best_move[1], ai.best_move[2], game.current_player).game
             ELSE game
  /\ call' = [call EXCEPT !.result = ai.best_move]
  /\ pc' = "done"
  /\ UNCHANGED << initial, setOrder, copy, mode, TT, timer, ai >>

\* ai_move of the web copy, called with its default depth.
WebAiMoveCall ==
  LET Returned(r) ==
        /\ game' = r.game
        /\ call' = [NoCall EXCEPT !.op = "ai_move", !.before = game, !.result = r.move,
                                  !.calls = r.n, !.scores = r.scores]
  IN  /\ copy = "web"
      /\ pc = "idle"
      /\ Returned(WebAiMove(game, WEB_DEPTH))
      /\ pc' = "done"
      /\ UNCHANGED << initial, setOrder, copy, mode, TT, timer, ai >>

\* ai_move of the drop-down copy, called with its default depth.
DropDownAiMoveCall ==
  LET Returned(r) ==
        /\ game' = r.game
        /\ call' = [NoCall EXCEPT !.op = "ai_move", !.before = game, !.result = r.move,
                                  !.calls = r.n, !.scores = r.scores]
  IN  /\ copy = "dropdown"
      /\ pc = "idle"
      /\ Returned(DropDownAiMove(game, DROPDOWN_DEPTH))
      /\ pc' = "done"
      /\ UNCHANGED << initial, setOrder, copy, mode, TT, timer, ai >>

\* The depths of a call made with the time limit reached.
LateDepths == {0, 1, DEPTH_CAP}

\* minimax_ab called on the game ai_move has returned, with the table that
\* call left and a timer whose limit has been reached.
MinimaxABLate(depth) ==
  LET Returned(r) ==
        /\ TT' = r.s.tt
        /\ timer' = r.s.left
        /\ call' = [NoCall EXCEPT !.op = "minimax_ab late", !.before = game,
                                  !.depth = depth, !.limit = 0, !.result = r.val,
                                  !.calls = r.s.calls, !.up = r.s.up,
                                  !.entry = IF ZobristKey(game) \in DOMAIN TT
                                            THEN TT[ZobristKey(game)] ELSE None]
  IN  /\ copy = "cli"
      /\ pc = "done"
      /\ call.op = "ai_move"
      /\ Returned(MinimaxAB(game, depth, 0 - INF, INF,
                            [tt |-> TT, left |-> 0, calls |-> 0, up |-> FALSE,
                             late |-> 0, stale |-> {}]))
      /\ pc' = "done"
      /\ UNCHANGED << initial, setOrder, copy, mode, game, ai >>

NextAI ==
  \/ \E limit \in Limits : AiMoveCall(limit)
  \/ AiIterate
  \/ AiReturn
  \/ WebAiMoveCall
  \/ DropDownAiMoveCall
  \/ \E depth \in LateDepths : MinimaxABLate(depth)

SpecAI == InitAI /\ [][NextAI]_vars

\* WF_vars(AiIterate), its ENABLED <<AiIterate>>_vars written as the guard of
\* the action, pc = "loop": a pass is defined for every game and changes
\* the depth or the place in the call.
AiIterateFair == []<>(pc # "loop") \/ []<><<AiIterate>>_vars

\* ai_move runs to its end once called: the passes of its loop and its last
\* statements are steps of one sequential call.
SpecAILive == InitAI /\ [][NextAI]_vars /\ AiIterateFair /\ WF_vars(AiReturn)

\* The largest number of moves made from a start position.
MaxPly == 1

\* The coordinates a caller passes: the board's and one step beyond each end.
Coords == -1 .. BOARD_SIZE

\* The positions make_move is called on: a recorded game and the number of
\* its moves already made.
CliStarts ==
  { << GAME_PLAY, 0 >>, << GAME_BUG, 30 >>, << GAME_PASS, 57 >>, << GAME_OVER, 60 >> }

\* The positions the /move handler is called on.
WebStarts ==
  { << GAME_PLAY, 56 >>, << GAME_PASS, 56 >>, << GAME_FOUR, 55 >>,
    << GAME_OVER, 58 >>, << GAME_OVER, 60 >> }

\* make_move of the CLI copy tests membership in the list of legal moves and
\* never reads its order, so one order stands for all of them there.
Init ==
  /\ initial = Untouched
  /\ \/ /\ copy = "cli"
        /\ setOrder = "asc"
        /\ mode = "human"
        /\ \E st \in CliStarts : game = At(st[1], st[2])
     \/ /\ copy = "web"
        /\ setOrder \in SetOrders
        /\ mode \in {"ai", "human"}
        /\ \E st \in WebStarts : game = At(st[1], st[2])
  /\ TT = << >>
  /\ pc = "idle"
  /\ timer = -1
  /\ ai = NoLocals
  /\ call = NoCall

\* INITIAL_BOARD once the caller's game has become g: what is written to
\* game.board reaches it only when game.board is that very list.
Written(shared, g) == IF shared.aliased THEN [shared EXCEPT !.board = g.board] ELSE shared

\* game = Othello() of play_game: a new game of the CLI copy.
NewGameCall ==
  /\ pc = "idle"
  /\ copy = "cli"
  /\ game' = Othello(initial).game
  /\ initial' = [initial EXCEPT !.aliased = Othello(initial).aliased]
  /\ call' = [NoCall EXCEPT !.op = "new_game", !.before = game, !.plies = call.plies]
  /\ pc' = "returned"
  /\ UNCHANGED << setOrder, copy, mode, TT, timer, ai >>

\* game.get_valid_moves(player)
GetValidMovesCall(player) ==
  /\ pc = "idle"
  /\ call' = [NoCall EXCEPT !.op = "get_valid_moves", !.before = game, !.player = player,
                            !.moves = GetValidMoves(game.board, player),
                            !.plies = call.plies]
  /\ pc' = "returned"
  /\ UNCHANGED << initial, setOrder, copy, mode, game, TT, timer, ai >>

\* game.make_move(r, c, player) of the CLI copy, called on the caller's game.
MakeMoveCall(r, c, player) ==
  LET Returned(m) ==
        /\ m.isFalse \/ call.plies < MaxPly
        /\ game' = m.game
        /\ initial' = Written(initial, m.game)
        /\ call' = [NoCall EXCEPT !.op = "make_move", !.before = game, !.r = r, !.c = c,
                                  !.player = player, !.failed = m.isFalse,
                                  !.result = m.ret,
                                  !.plies = call.plies + (IF m.isFalse THEN 0 ELSE 1)]
  IN  /\ copy = "cli"
      /\ pc = "idle"
      /\ Returned(MakeMove(game, r, c, player))
      /\ pc' = "returned"
      /\ UNCHANGED << setOrder, copy, mode, TT, timer, ai >>

RECURSIVE WebTurns(_, _)

\* That loop as an if: the computer answers when it is its turn with a move
\* to make, and no turn is skipped.
WebTurnsOnce(g, md) ==
  IF IsTerminal(g) THEN g
  ELSE IF md = "ai" /\ g.current_player = -1 /\ ValidMoveSet(g.board, -1) # {}
  THEN WebAiMove(g, WEB_DEPTH).game
  ELSE g

\* game.make_move(r, c, player) of the web copy, called on the caller's game.
WebMakeMoveCall(r, c, player) ==
  LET Returned(m) ==
        /\ ~m.ret \/ call.plies < MaxPly
        /\ game' = m.game
        /\ initial' = Written(initial, m.game)
        /\ call' = [NoCall EXCEPT !.op = "web make_move", !.before = game, !.r = r,
                                  !.c = c, !.player = player, !.failed = ~m.ret,
                                  !.raised = m.raised, !.outside = m.outside,
                                  !.plies = call.plies + (IF m.ret THEN 1 ELSE 0)]
  IN  /\ copy = "web"
      /\ pc = "idle"
      /\ Returned(WebMakeMove(game, r, c, player))
      /\ pc' = "returned"
      /\ UNCHANGED << setOrder, copy, mode, TT, timer, ai >>

\* The while loop of the /move handler: skipped turns and the computer's moves.
WebTurns(g, md) ==
  IF IsTerminal(g) THEN g
  ELSE IF ValidMoveSet(g.board, g.current_player) = {}
  THEN WebTurns([g EXCEPT !.current_player = 0 - @], md)
  ELSE IF md = "ai" /\ g.current_player = -1
  THEN WebTurns(WebAiMove(g, WEB_DEPTH).game, md)
  ELSE g

\* game.game_over = game.is_terminal(); return get_status()
WebFinish(g) == [game |-> [g EXCEPT !.game_over = IsTerminal(g)], status |-> 200]

\* The /move handler on game g in mode md: the game it leaves and the HTTP
\* status it answers with.
WebMove(g, md, row, col) ==
  LET Handled(m) ==
        IF m.raised THEN [game |-> m.game, status |-> 500]
        ELSE IF ~m.ret THEN [game |-> m.game, status |-> 400]
        ELSE WebFinish(WebTurns(m.game, md))
  IN  IF md = "ai" /\ g.current_player # 1 THEN [game |-> g, status |-> 403]
      ELSE Handled(WebMakeMove(g, row, col, g.current_player))

\* POST /move with a row and a column.
WebMoveRequest(row, col) ==
  LET Answered(a) ==
        /\ a.status # 200 \/ call.plies < MaxPly
        /\ game' = a.game
        /\ initial' = Written(initial, a.game)
        /\ call' = [NoCall EXCEPT !.op = "move", !.before = game, !.r = row, !.c = col,
                                  !.player = game.current_player,
                                  !.failed = (a.status # 200), !.status = a.status,
                                  !.plies = call.plies + (IF a.status = 200 THEN 1 ELSE 0)]
  IN  /\ copy = "web"
      /\ pc = "idle"
      /\ Answered(WebMove(game, mode, row, col))
      /\ pc' = "returned"
      /\ UNCHANGED << setOrder, copy, mode, TT, timer, ai >>

\* The caller takes the answer and goes on to its next call.
Resume ==
  /\ pc = "returned"
  /\ pc' = "idle"
  /\ call' = [NoCall EXCEPT !.plies = call.plies]
  /\ UNCHANGED << initial, setOrder, copy, mode, game, TT, timer, ai >>

Next ==
  \/ \E r \in Coords, c \in Coords, player \in {BLACK, WHITE} : MakeMoveCall(r, c, player)
  \/ \E row \in Coords, col \in Coords : WebMoveRequest(row, col)
  \/ \E r \in Coords, c \in Coords, player \in {BLACK, WHITE} : WebMakeMoveCall(r, c, player)
  \/ Resume
  \/ NewGameCall
  \/ \E player \in {BLACK, WHITE} : GetValidMovesCall(player)

Spec == Init /\ [][Next]_vars

\* The largest depth minimax_ab and minimax are called with.
MaxDepth == 4

\* The positions the search is called on.
SearchStarts ==
  { << GAME_BUG, 55 >>, << GAME_PLAY, 55 >>, << GAME_PLAY, 57 >>, << GAME_FOUR, 56 >>,
    << GAME_PASS, 57 >> }

InitSearch ==
  /\ initial = Untouched
  /\ setOrder \in SetOrders
  /\ copy \in {"cli", "web", "grid", "dropdown"}
  /\ mode = "ai"
  /\ \E st \in SearchStarts : game = At(st[1], st[2])
  /\ TT = << >>
  /\ pc = "idle"
  /\ timer = -1
  /\ ai = NoLocals
  /\ call = NoCall

\* minimax_ab(game, depth, -inf, inf, timer) with TT empty and a timer whose
\* limit is never reached.
MinimaxABCall(depth) ==
  LET Returned(r) ==
        /\ TT' = r.s.tt
        /\ call' = [NoCall EXCEPT !.op = "minimax_ab", !.before = game, !.depth = depth,
                                  !.result = r.val, !.calls = r.s.calls]
  IN  /\ copy = "cli"
      /\ pc = "idle"
      /\ TT = << >>
      /\ Returned(MinimaxAB(game, depth, 0 - INF, INF,
                            [tt |-> TT, left |-> timer, calls |-> 0, up |-> FALSE,
                             late |-> 0, stale |-> {}]))
      /\ pc' = "done"
      /\ UNCHANGED << initial, setOrder, copy, mode, game, timer, ai >>

\* minimax(game, depth, -inf, inf, maximizing_player) of the web copy, Black
\* being the maximizing player.
WebMinimaxCall(depth) ==
  LET Returned(r) ==
        /\ game' = r.game
        /\ call' = [NoCall EXCEPT !.op = "minimax", !.before = game, !.depth = depth,
                                  !.result = r.val, !.calls = r.n]
  IN  /\ copy = "web"
      /\ pc = "idle"
      /\ Returned(WebMinimax(game, depth, 0 - INF, INF, game.current_player = 1, 0))
      /\ pc' = "done"
      /\ UNCHANGED << initial, setOrder, copy, mode, TT, timer, ai >>

\* minimax_ab on the same game once more, with the table the first call
\* left: entry is what the table held for the position before the call.
MinimaxABAgain(depth) ==
  LET Returned(r) ==
        /\ TT' = r.s.tt
        /\ call' = [NoCall EXCEPT !.op = "minimax_ab again", !.before = game,
                                  !.depth = depth, !.result = r.val, !.calls = r.s.calls,
                                  !.entry = IF ZobristKey(game) \in DOMAIN TT
                                            THEN TT[ZobristKey(game)] ELSE None]
  IN  /\ copy = "cli"
      /\ pc = "done"
      /\ call.op = "minimax_ab"
      /\ Returned(MinimaxAB(game, depth, 0 - INF, INF,
                            [tt |-> TT, left |-> timer, calls |-> 0, up |-> FALSE,
                             late |-> 0, stale |-> {}]))
      /\ pc' = "done"
      /\ UNCHANGED << initial, setOrder, copy, mode, game, timer, ai >>

\* minimax(game, depth, -inf, inf, maximizing_player) of the grid copy.
GridMinimaxCall(depth) ==
  LET Returned(r) ==
        /\ game' = r.game
        /\ call' = [NoCall EXCEPT !.op = "grid minimax", !.before = game, !.depth = depth,
                                  !.result = r.val, !.calls = r.n]
  IN  /\ copy = "grid"
      /\ pc = "idle"
      /\ Returned(GridMinimax(game, depth, 0 - INF, INF, game.current_player = 1, 0))
      /\ pc' = "done"
      /\ UNCHANGED << initial, setOrder, copy, mode, TT, timer, ai >>

\* minimax(game, depth, -inf, inf, maximizing_player) of the drop-down copy.
DropDownMinimaxCall(depth, maximizing) ==
  LET Returned(r) ==
        /\ game' = r.game
        /\ call' = [NoCall EXCEPT !.op = "dropdown minimax", !.before = game,
                                  !.depth = depth, !.result = r.val, !.calls = r.n,
                                  !.answer = maximizing]
  IN  /\ copy = "dropdown"
      /\ pc = "idle"
      /\ Returned(DropDownMinimax(game, depth, 0 - INF, INF, maximizing, 0))
      /\ pc' = "done"
      /\ UNCHANGED << initial, setOrder, copy, mode, TT, timer, ai >>

NextSearch ==
  \/ \E depth \in 1 .. MaxDepth : MinimaxABCall(depth)
  \/ \E depth \in 1 .. MaxDepth : WebMinimaxCall(depth)
  \/ \E depth \in 1 .. MaxDepth : GridMinimaxCall(depth)
  \/ \E depth \in 1 .. MaxDepth : MinimaxABAgain(depth)
  \/ \E depth \in 1 .. MaxDepth, maximizing \in BOOLEAN : DropDownMinimaxCall(depth, maximizing)

SpecSearch == InitSearch /\ [][NextSearch]_vars


\* The number of moves between two positions of a recorded game that the
\* pure methods are called on.
EvalStep == 4

\* The positions evaluate_board, is_terminal and order_moves are called on:
\* every EvalStep-th position of the recorded games and their last ones.
EvalStarts ==
  { << hist, n >> : hist \in { GAME_PLAY, GAME_PASS, GAME_OVER, GAME_BUG, GAME_FOUR },
                    n \in { k \in 0 .. 60 : k % EvalStep = 0 } \cup { 55, 56, 57 } }

\* play_game assigns current_player itself when a turn is skipped, so either
\* side can be the one to move on a board.
InitEval ==
  /\ initial = Untouched
  /\ setOrder \in SetOrders
  /\ copy = "cli"
  /\ mode = "human"
  /\ \E st \in EvalStarts, side \in {BLACK, WHITE} :
       /\ st[2] <= Len(st[1])
       /\ game = [At(st[1], st[2]) EXCEPT !.current_player = side]
  /\ TT = << >>
  /\ pc = "idle"
  /\ timer = -1
  /\ ai = NoLocals
  /\ call = NoCall

\* game.evaluate_board(player)
EvaluateBoardCall(player) ==
  /\ pc = "idle"
  /\ call' = [NoCall EXCEPT !.op = "evaluate_board", !.before = game, !.player = player,
                            !.result = EvaluateBoard(game.board, player)]
  /\ pc' = "done"
  /\ UNCHANGED << initial, setOrder, copy, mode, game, TT, timer, ai >>

\* game.is_terminal()
IsTerminalCall ==
  /\ pc = "idle"
  /\ call' = [NoCall EXCEPT !.op = "is_terminal", !.before = game,
                            !.answer = IsTerminal(game)]
  /\ pc' = "done"
  /\ UNCHANGED << initial, setOrder, copy, mode, game, TT, timer, ai >>

\* order_moves(game, game.get_valid_moves(player), player)
OrderMovesCall(player) ==
  /\ pc = "idle"
  /\ call' = [NoCall EXCEPT !.op = "order_moves", !.before = game, !.player = player,
                            !.moves = OrderMoves(game, GetValidMoves(game.board, player),
                                                 player)]
  /\ pc' = "done"
  /\ UNCHANGED << initial, setOrder, copy, mode, game, TT, timer, ai >>

NextEval ==
  \/ \E player \in {BLACK, WHITE} : EvaluateBoardCall(player)
  \/ IsTerminalCall
  \/ \E player \in {BLACK, WHITE} : OrderMovesCall(player)

SpecEval == InitEval /\ [][NextEval]_vars

\* The time limits of the calls in a run of several of them.
CacheLimits == {0, MaxPolls, -1}

\* play_game with the computer about to move.
InitCache ==
  /\ initial = Untouched
  /\ setOrder \in SetOrders
  /\ copy = "cli"
  /\ mode = "human"
  /\ \E hist \in {GAME_PLAY, GAME_FOUR} : game = At(hist, Len(hist))
  /\ TT = << >>
  /\ pc = "idle"
  /\ timer = -1
  /\ ai = NoLocals
  /\ call = NoCall

\* The passes of the while loop of play_game between two calls of ai_move:
\* the human's move, or the human's turn skipped.
HumanTurn ==
  LET valid == ValidMoveSet(game.board, 1)
  IN  /\ pc = "done"
      /\ copy = "cli"
      /\ call.op = "ai_move"
      /\ call.plies < MaxPly
      /\ ~IsTerminal(game)
      /\ IF game.current_player = 1 /\ valid # {}
         THEN \E m \in valid : game' = MakeMove(game, m[1], m[2], 1).game
         ELSE game' = [game EXCEPT !.current_player = -1]
      /\ pc' = "idle"
      /\ timer' = -1
      /\ ai' = NoLocals
      /\ call' = [NoCall EXCEPT !.plies = call.plies + 1, !.stale = call.stale]
      /\ UNCHANGED << initial, setOrder, copy, mode, TT >>

NextCache ==
  \/ \E limit \in CacheLimits : AiMoveCall(limit)
  \/ AiIterate
  \/ AiReturn
  \/ HumanTurn

SpecCache == InitCache /\ [][NextCache]_vars

\* The positions play_game is taken up at.
PlayStarts ==
  { << GAME_PLAY, 55 >>, << GAME_PASS, 56 >>, << GAME_OVER, 58 >>, << GAME_BUG, 55 >>,
    << GAME_FOUR, 55 >> }

InitPlay ==
  /\ initial = Untouched
  /\ setOrder \in SetOrders
  /\ copy = "cli"
  /\ mode = "human"
  /\ \E st \in PlayStarts : game = At(st[1], st[2])
  /\ TT = << >>
  /\ pc = "idle"
  /\ timer = -1
  /\ ai = NoLocals
  /\ call = NoCall

\* The test of the while loop of play_game is about to be made: at the start
\* and after every turn.
AtLoopTop == pc = "idle" \/ (pc = "done" /\ call.op = "ai_move")

\* What a turn of play_game other than the computer's move leaves of the
\* locals of the last ai_move.
TurnTaken(op) ==
  /\ timer' = -1
  /\ ai' = NoLocals
  /\ call' = [NoCall EXCEPT !.op = op, !.before = game, !.stale = call.stale]
  /\ UNCHANGED << initial, setOrder, copy, mode, TT >>

\* The loop left as soon as the side to move has no legal move.
PlayExitEarly ==
  /\ AtLoopTop
  /\ ValidMoveSet(game.board, game.current_player) = {}
  /\ pc' = "over"
  /\ game' = game
  /\ TurnTaken("game over")

\* while not game.is_terminal(): the loop is left.
PlayExit ==
  /\ AtLoopTop
  /\ IsTerminal(game)
  /\ pc' = "over"
  /\ game' = game
  /\ TurnTaken("game over")

\* The human's turn with a legal move typed in.
PlayHumanMove(m) ==
  /\ AtLoopTop
  /\ ~IsTerminal(game)
  /\ game.current_player = 1
  /\ m \in ValidMoveSet(game.board, 1)
  /\ game' = MakeMove(game, m[1], m[2], 1).game
  /\ pc' = "idle"
  /\ TurnTaken("human move")

\* Either side's turn without a legal move: the turn goes to the other side.
PlaySkip ==
  /\ AtLoopTop
  /\ ~IsTerminal(game)
  /\ ValidMoveSet(game.board, game.current_player) = {}
  /\ game' = [game EXCEPT !.current_player = IF @ = 1 THEN -1 ELSE 1]
  /\ pc' = "idle"
  /\ TurnTaken("skip")

\* The computer's turn with a legal move: ai_move is called.
PlayAiMove(limit) ==
  /\ ~IsTerminal(game)
  /\ game.current_player # 1
  /\ ValidMoveSet(game.board, -1) # {}
  /\ AiMoveCall(limit)

\* A turn of play_game up to the call of ai_move.
PlayTurn ==
  \/ PlayExit
  \/ \E m \in Cells : PlayHumanMove(m)
  \/ PlaySkip
  \/ \E limit \in CacheLimits : PlayAiMove(limit)

NextPlay ==
  \/ PlayTurn
  \/ AiIterate
  \/ AiReturn

\* play_game is one sequential program and every input is a legal move: a
\* turn that can be taken is taken, and ai_move runs to its end.
SpecPlay ==
  InitPlay /\ [][NextPlay]_vars /\ WF_vars(PlayTurn) /\ AiIterateFair /\ WF_vars(AiReturn)

\* ---------------------------------------------------------------- properties

SameBoardAndSide(g, h) == g.board = h.board /\ g.current_player = h.current_player

LegalBefore == ValidMoveSet(call.before.board, call.before.current_player)

\* make_move(m) for the side to move as the running copy makes it.
Applied(g, m) ==
  IF copy = "cli" THEN MakeMove(g, m[1], m[2], g.current_player).game
  ELSE WebMakeMove(g, m[1], m[2], g.current_player).game

Maximum(S) == CHOOSE x \in S : \A y \in S : y <= x

Minimum(S) == CHOOSE x \in S : \A y \in S : x <= y

\* The minimax value of depth plies on game g without pruning and without a
\* table, from Black's perspective; a skipped turn costs no ply.
RECURSIVE FullMinimax(_, _)
FullMinimax(g, depth) ==
  LET moves == ValidMoveSet(g.board, g.current_player)
      values == { FullMinimax(MakeMove(g, m[1], m[2], g.current_player).game, depth - 1) :
                  m \in moves }
  IN  IF depth = 0 \/ IsTerminal(g) THEN EvaluateBoard(g.board, 1)
      ELSE IF moves = {}
      THEN FullMinimax([g EXCEPT !.current_player = 0 - @], depth)
      ELSE IF g.current_player = 1 THEN Maximum(values) ELSE Minimum(values)

\* C2: the value the search returns for the full window, a timer that never
\* expires and an empty table is the minimax value of the same depth.
AlphaBetaEqualsMinimax ==
  call.op \in {"minimax_ab", "minimax"} /\ pc = "done" =>
    call.result = FullMinimax(call.before, call.depth)

\* One root search of ai_move at the given depth with an empty table and a
\* timer that never expires: the move it finds best.
DirectSearch(g, depth) ==
  RootLoop(g, OrderMoves(g, GetValidMoves(g.board, g.current_player), g.current_player),
           1, depth, None, INF,
           [tt |-> << >>, left |-> -1, calls |-> 0, up |-> FALSE, late |-> 0, stale |-> {}],
           << >>).move

\* C3: with a time limit that is never reached, the move of every iteration
\* ai_move completes, and so the move it returns, is the move of a direct
\* search of that depth from an empty table.
DeepeningEqualsDirectSearch ==
  call.op = "ai_move" /\ copy = "cli" /\ call.limit = -1 /\ call.last[1] > 0 =>
    /\ call.last[2] = DirectSearch(call.before, call.last[1])
    /\ pc \in {"apply", "done"} => ai.best_move = call.last[2]
    /\ pc = "done" => call.result = call.last[2]

DeepeningCompleted ==
  /\ call.op = "ai_move"
  /\ copy = "cli"
  /\ pc = "done"
  /\ call.limit = -1
  /\ call.last[1] = DEPTH_CAP
  /\ call.result # None
  /\ TT # << >>

\* C4: ai_move returns the move of the deepest iteration in which no
\* time_up() call answered True, the test after the root loop included, and
\* moves[0] when there is no such iteration; what an iteration found in
\* which the limit was reached is not returned in its place.
ReturnsLastCleanIteration ==
  call.op = "ai_move" /\ copy = "cli" /\ ai.moves # << >> =>
    /\ pc \in {"loop", "apply", "done"} =>
         ai.best_move = IF call.clean[1] > 0 THEN call.clean[2] ELSE ai.moves[1]
    /\ call.clean[1] > 0 => call.clean[2] # None
    /\ pc = "done" => call.result = ai.best_move

ExpiredIterationDropped ==
  /\ call.op = "ai_move"
  /\ copy = "cli"
  /\ pc = "done"
  /\ call.up
  /\ call.clean[1] > 0
  /\ call.last[1] > call.clean[1]
  /\ call.last[2] # None
  /\ call.last[2] # call.clean[2]
  /\ call.result = call.clean[2]

\* C5: when the side to move has a legal move, ai_move returns one of its
\* legal moves, whatever the time limit.
ReturnsLegalMove ==
  call.op = "ai_move" /\ pc = "done" /\ LegalBefore # {} => call.result \in LegalBefore

ZeroBudgetMove ==
  /\ call.op = "ai_move"
  /\ copy = "cli"
  /\ pc = "done"
  /\ call.limit = 0
  /\ call.calls = 0
  /\ call.result \in LegalBefore

\* C6: when the side to move has no legal move, ai_move returns None and
\* makes no call of the search.
NoMoveNoSearch ==
  call.op = "ai_move" /\ LegalBefore = {} => call.result = None /\ call.calls = 0

PassReturned ==
  /\ call.op = "ai_move"
  /\ pc = "done"
  /\ LegalBefore = {}
  /\ ValidMoveSet(call.before.board, 0 - call.before.current_player) # {}
  /\ call.result = None
  /\ game = call.before

RootScores == { call.scores[i][2] : i \in DOMAIN call.scores }

\* C7: the move ai_move returns has the least of the root scores when White
\* is to move and the greatest when Black is (for the CLI copy: when the time
\* limit was not reached).
RootPicksBestForSideToMove ==
  call.op = "ai_move" /\ pc = "done" /\ call.scores # << >> /\ ~call.up =>
    \E i \in DOMAIN call.scores :
      /\ call.scores[i][1] = call.result
      /\ call.scores[i][2] = IF call.before.current_player = -1 THEN Minimum(RootScores)
                             ELSE Maximum(RootScores)

NotLegal(r, c, board, player) == << r, c >> \notin ValidMoveSet(board, player)

\* C8: make_move with a cell that is not a legal move of the given side
\* returns False and leaves board and side to move as they were; the /move
\* handler answers such a request with an error status and leaves the game
\* as it was.
IllegalMoveRejected ==
  pc = "returned" =>
    /\ call.op = "make_move" /\ NotLegal(call.r, call.c, call.before.board, call.player) =>
         call.failed /\ SameBoardAndSide(game, call.before)
    /\ call.op = "move"
         /\ NotLegal(call.r, call.c, call.before.board, call.before.current_player) =>
         call.status \in {400, 403} /\ game = call.before

OccupiedCellRejected ==
  /\ pc = "returned"
  /\ call.op = "make_move"
  /\ InBoard(call.r, call.c)
  /\ call.before.board[call.r][call.c] # 0
  /\ call.failed

Occupied(board) == Cardinality({ m \in Cells : board[m[1]][m[2]] # 0 })

\* The cells other than the placed one whose colour the call changed.
ChangedCells ==
  { m \in Cells \ {<< call.r, call.c >>} : game.board[m[1]][m[2]] # call.before.board[m[1]][m[2]] }

MoveMade == pc = "returned" /\ call.op = "make_move" /\ ~call.failed

\* C9 as stated: a legal move increases the number of occupied cells by
\* 1 + the number of cells it flips.
OccupiedGrowsByOnePlusFlipped ==
  MoveMade =>
    Occupied(game.board) = Occupied(call.before.board) + 1 + Cardinality(ChangedCells)

\* C9: a legal move increases the number of cells of the mover's colour by
\* 1 + the number of cells it flips, which is the number make_move returns,
\* and the number of occupied cells by 1.
MoverGrowsByOnePlusFlipped ==
  MoveMade =>
    /\ Count(game.board, call.player)
         = Count(call.before.board, call.player) + 1 + Cardinality(ChangedCells)
    /\ Count(game.board, 0 - call.player)
         = Count(call.before.board, 0 - call.player) - Cardinality(ChangedCells)
    /\ call.result = Cardinality(ChangedCells)
    /\ Occupied(game.board) = Occupied(call.before.board) + 1

SeveralFlipped == MoveMade /\ Cardinality(ChangedCells) >= 3 /\ call.result >= 3

\* Cell m is k steps from the placed cell in direction d, and further on in
\* that direction lies a cell that held the mover's colour before the call.
Between(m, d, k) ==
  /\ m = << call.r + k * d[1], call.c + k * d[2] >>
  /\ \E n \in (k + 1) .. BOARD_SIZE :
       /\ InBoard(call.r + n * d[1], call.c + n * d[2])
       /\ call.before.board[call.r + n * d[1]][call.c + n * d[2]] = call.player

\* C10: every cell a legal move changes, the placed one aside, held the
\* opponent's colour, holds the mover's now, and lies strictly between the
\* placed cell and a cell that held the mover's colour before the move, along
\* one of the 8 directions; the placed cell was empty and holds the mover's
\* colour.
FlipsLieBetween ==
  MoveMade =>
    /\ call.before.board[call.r][call.c] = 0
    /\ game.board[call.r][call.c] = call.player
    /\ \A m \in ChangedCells :
         /\ call.before.board[m[1]][m[2]] = 0 - call.player
         /\ game.board[m[1]][m[2]] = call.player
         /\ \E i \in DOMAIN Directions, k \in 1 .. BOARD_SIZE : Between(m, Directions[i], k)

FlippedInTwoDirections ==
  /\ MoveMade
  /\ \E m \in ChangedCells, x \in ChangedCells :
       /\ m[1] = call.r
       /\ x[1] # call.r

\* C11: evaluate_board for Black is the negation of evaluate_board for White
\* on the same board.
EvaluateIsAntisymmetric ==
  call.op = "evaluate_board" =>
    call.result = 0 - EvaluateBoard(call.before.board, 0 - call.player)

EvaluatedWithMobility ==
  /\ call.op = "evaluate_board"
  /\ call.player = WHITE
  /\ Mobility(call.before.board) # 0
  /\ PosScore(call.before.board) # 0
  /\ call.result # 0

\* C12: is_terminal answers True exactly when neither side has a legal move,
\* whichever side is to move, and so on every board without an empty cell.
TerminalIffNoMoves ==
  call.op = "is_terminal" =>
    /\ call.answer <=> (ValidMoveSet(call.before.board, BLACK) = {}
                          /\ ValidMoveSet(call.before.board, WHITE) = {})
    /\ call.answer <=> IsTerminal([call.before EXCEPT !.current_player = 0 - @])
    /\ Count(call.before.board, 0) = 0 => call.answer

OneSideStuckNotTerminal ==
  /\ call.op = "is_terminal"
  /\ ValidMoveSet(call.before.board, call.before.current_player) = {}
  /\ ValidMoveSet(call.before.board, 0 - call.before.current_player) # {}
  /\ ~call.answer

\* The number of pieces move m flips for the player of the call.
Flips(m) == MakeMove(call.before, m[1], m[2], call.player).ret

\* A corner move at place i and another move at place j that flips as many.
CornerPair(i, j) ==
  /\ call.moves[i] \in Corners
  /\ call.moves[j] \notin Corners
  /\ Flips(call.moves[i]) = Flips(call.moves[j])

\* C15: order_moves returns the legal moves, and a corner move comes before
\* every move off the corners that flips the same number of pieces.
CornerFirstOnEqualFlips ==
  call.op = "order_moves" =>
    /\ SeqToSet(call.moves) = ValidMoveSet(call.before.board, call.player)
    /\ Len(call.moves) = Cardinality(ValidMoveSet(call.before.board, call.player))
    /\ \A i \in DOMAIN call.moves, j \in DOMAIN call.moves : CornerPair(i, j) => i < j

CornerOrdered ==
  /\ call.op = "order_moves"
  /\ \E i \in DOMAIN call.moves, j \in DOMAIN call.moves : CornerPair(i, j) /\ i < j

\* The standard starting position.
StartBoard ==
  [r \in Idx |-> [c \in Idx |->
     IF << r, c >> \in { << 3, 3 >>, << 4, 4 >> } THEN WHITE
     ELSE IF << r, c >> \in { << 3, 4 >>, << 4, 3 >> } THEN BLACK
     ELSE 0]]

\* C13: a game just constructed has 2 Black and 2 White cells crossed on the
\* central diagonals, every other cell empty and Black to move, also when
\* games were played before it.
NewGameIsStandardStart ==
  call.op = "new_game" =>
    /\ game.board = StartBoard
    /\ Count(game.board, BLACK) = 2
    /\ Count(game.board, WHITE) = 2
    /\ game.current_player = BLACK
    /\ initial.board = StartBoard

SecondGameConstructed ==
  /\ call.op = "new_game"
  /\ call.plies >= 1
  /\ call.before.board # StartBoard
  /\ game.board = StartBoard

\* C14: from the standard start get_valid_moves(Black) gives exactly (2,3),
\* (3,2), (4,5) and (5,4), and make_move(2, 3, Black) flips (3,3) and nothing
\* else: 4 Black pieces, 1 White piece, White to move.
StartScenario ==
  call.before.board = StartBoard /\ call.player = BLACK =>
    /\ call.op = "get_valid_moves" =>
         /\ SeqToSet(call.moves) = { << 2, 3 >>, << 3, 2 >>, << 4, 5 >>, << 5, 4 >> }
         /\ Len(call.moves) = 4
    /\ call.op = "make_move" /\ call.r = 2 /\ call.c = 3 =>
         /\ ~call.failed
         /\ game.board = [StartBoard EXCEPT ![2][3] = BLACK, ![3][3] = BLACK]
         /\ Count(game.board, BLACK) = 4
         /\ Count(game.board, WHITE) = 1
         /\ game.current_player = WHITE

StartMovePlayed ==
  /\ call.op = "make_move"
  /\ call.before.board = StartBoard
  /\ call.player = BLACK
  /\ call.r = 2
  /\ call.c = 3
  /\ game.board[3][3] = BLACK

\* C16: the number of occupied cells is between 4 and 64, and within one game
\* no step lowers it or empties an occupied cell.
OccupiedOnlyGrows ==
  /\ [](Occupied(game.board) >= 4 /\ Occupied(game.board) <= 64)
  /\ [][call'.op # "new_game" =>
          /\ Occupied(game'.board) >= Occupied(game.board)
          /\ \A m \in Cells : game.board[m[1]][m[2]] # 0 => game'.board[m[1]][m[2]] # 0]_vars

EngineAnswered ==
  /\ call.op = "move"
  /\ call.status = 200
  /\ Occupied(game.board) >= Occupied(call.before.board) + 2
  /\ Cardinality({ m \in Cells : game.board[m[1]][m[2]] # call.before.board[m[1]][m[2]] }) >= 4

\* The minimax value of depth plies on game g for the evaluation of the
\* drop-down and grid copies, without pruning: Black takes the greatest of
\* the values of its moves and White the least; a skipped turn costs no ply.
RECURSIVE LightMinimax(_, _)
LightMinimax(g, depth) ==
  LET moves == ValidMoveSet(g.board, g.current_player)
      values == { LightMinimax(MakeMove(g, m[1], m[2], g.current_player).game, depth - 1) :
                  m \in moves }
  IN  IF depth = 0 \/ IsTerminal(g) THEN DropDownEvaluateBoard(g.board, 1)
      ELSE IF moves = {}
      THEN LightMinimax([g EXCEPT !.current_player = 0 - @], depth)
      ELSE IF g.current_player = 1 THEN Maximum(values) ELSE Minimum(values)

\* The depth of the root search whose scores the call recorded.
RootDepth ==
  IF copy = "cli" THEN call.last[1] ELSE IF copy = "web" THEN WEB_DEPTH ELSE DROPDOWN_DEPTH

\* The value of the node below the root that root move m leads to, when
\* every node below takes the side of its player.
SidedValue(m) ==
  IF copy = "dropdown"
  THEN LightMinimax(MakeMove(call.before, m[1], m[2], call.before.current_player).game,
                    RootDepth - 1)
  ELSE FullMinimax(MakeMove(call.before, m[1], m[2], call.before.current_player).game,
                   RootDepth - 1)

\* C17: every node of the search with legal moves takes the greatest of its
\* children's values when Black is to move and the least when White is, the
\* node below the root and the nodes after a skipped turn included: the score
\* of every root move is the value its node has under that rule.
NodesSideWithTheirPlayer ==
  call.op = "ai_move" /\ pc = "done" /\ ~call.up =>
    \A i \in DOMAIN call.scores : call.scores[i][2] = SidedValue(call.scores[i][1])

\* The search of the running copy called afresh on game g: full window, a
\* timer that never expires, an empty table.
SearchValue(g, depth) ==
  CASE copy = "cli" ->
         MinimaxAB(g, depth, 0 - INF, INF,
                   [tt |-> << >>, left |-> -1, calls |-> 0, up |-> FALSE, late |-> 0,
                    stale |-> {}]).val
    [] copy = "web" -> WebMinimax(g, depth, 0 - INF, INF, g.current_player = 1, 0).val
    [] OTHER -> GridMinimax(g, depth, 0 - INF, INF, g.current_player = 1, 0).val

\* C18: when the side to move has no legal move and the game is not over,
\* the search returns what it returns for the same board with the other
\* side to move and the same depth.
PassKeepsDepth ==
  /\ call.op \in {"minimax_ab", "minimax", "grid minimax"}
  /\ pc = "done"
  /\ LegalBefore = {}
  /\ ~IsTerminal(call.before)
  => call.result = SearchValue([call.before EXCEPT !.current_player = 0 - @], call.depth)

\* C19: whenever a call of ai_move starts to search, and when it returns
\* at once for want of a move, the transposition table is empty, whatever
\* the calls before it left there.
CacheEmptyAtStart ==
  call.op = "ai_move" /\ copy = "cli" =>
    /\ pc = "loop" /\ ai.depth = 1 => TT = << >>
    /\ pc = "done" /\ call.calls = 0 /\ ~call.up => TT = << >>

LaterDecisionStarted ==
  /\ call.op = "ai_move"
  /\ copy = "cli"
  /\ call.plies >= 1
  /\ pc = "loop"
  /\ ai.depth = 1
  /\ TT = << >>

\* C20: a call of minimax_ab on a position the table holds an entry (d, v)
\* for returns v without searching and leaves the entry when d is at least
\* the depth asked for; when d is less it searches the position again and
\* leaves (depth, value returned) as the entry.
CachedOnlyWhenDeepEnough ==
  call.op = "minimax_ab again" /\ call.entry # None =>
    IF call.entry[1] >= call.depth
    THEN /\ call.result = call.entry[2]
         /\ call.calls = 1
         /\ TT[ZobristKey(call.before)] = call.entry
    ELSE /\ TT[ZobristKey(call.before)] = << call.depth, call.result >>
         /\ call.calls > 1 \/ IsTerminal(call.before)

ShallowEntryReplaced ==
  /\ call.op = "minimax_ab again"
  /\ call.entry # None
  /\ call.entry[1] < call.depth
  /\ call.calls > 1
  /\ call.result # call.entry[2]
  /\ TT[ZobristKey(call.before)] = << call.depth, call.result >>

\* C21: a call of minimax_ab entered with the time limit reached returns the
\* static evaluation of its board for Black, leaves the table as it was and
\* makes no further call; a pass of the loop of ai_move entered with the time
\* limit reached leaves the loop at once, without a search call and with the
\* table, the game and the best move as they were.
DeadlineTestedFirst ==
  [][ /\ call'.op = "minimax_ab late" =>
           /\ call'.result = EvaluateBoard(game.board, 1)
           /\ TT' = TT
           /\ call'.calls = 1
      /\ pc = "loop" /\ copy = "cli" /\ timer = 0 =>
           /\ pc' = "apply"
           /\ TT' = TT
           /\ game' = game
           /\ call'.calls = call.calls
           /\ ai' = ai ]_vars

LateCallSkippedEntry ==
  /\ call.op = "minimax_ab late"
  /\ call.entry # None
  /\ call.entry[1] >= call.depth
  /\ call.entry[2] # call.result

\* C22: when the time limit is reached before the iteration of depth 1 has
\* been accepted, ai_move returns the first of the legal moves as
\* get_valid_moves lists them, which is a move and not None, whatever the
\* iteration cut short had found.
FallsBackToFirstMove ==
  call.op = "ai_move" /\ copy = "cli" /\ pc = "done" /\ LegalBefore # {}
    /\ call.up /\ call.clean[1] = 0 =>
      /\ call.result # None
      /\ call.result = GetValidMoves(call.before.board, call.before.current_player)[1]

PartialIterationIgnored ==
  /\ call.op = "ai_move"
  /\ copy = "cli"
  /\ pc = "done"
  /\ call.up
  /\ call.clean[1] = 0
  /\ call.last[1] = 1
  /\ call.last[2] # None
  /\ call.last[2] # call.result

\* C23: a call of ai_move that has entered its loop returns; the passes of
\* the loop search depths 1, 2, ... in steps of one, no pass is started with
\* a depth above 60, and the loop is left once depth 60 has been searched.
AiMoveTerminates ==
  /\ [](call.op = "ai_move" /\ copy = "cli" =>
          /\ call.last[1] <= 60
          /\ pc = "loop" => ai.depth \in 1 .. 60
          /\ pc \in {"apply", "done"} /\ ai.moves # << >> => ai.depth \in 1 .. 61
          /\ pc = "loop" /\ ~call.up => call.last[1] = ai.depth - 1)
  /\ [][pc = "loop" /\ copy = "cli" /\ call'.last # call.last =>
          /\ call'.last[1] = ai.depth
          /\ call'.last[1] = call.last[1] + 1
          /\ ai'.depth = ai.depth + 1
          /\ pc' = IF ai.depth = 60 THEN "apply" ELSE "loop"]_vars
  /\ (call.op = "ai_move" /\ pc = "loop") ~> (call.op = "ai_move" /\ pc = "done")

RanToDepthCap ==
  /\ call.op = "ai_move"
  /\ copy = "cli"
  /\ pc = "done"
  /\ ~call.up
  /\ call.last[1] = 60
  /\ ai.depth = 61

\* C24: a call of the recursive search, in the CLI, web, drop-down and grid
\* copies, leaves the game it was given with the board and the side to move
\* it had before the call.
SearchLeavesGameAlone ==
  call.op \in {"minimax_ab", "minimax_ab again", "minimax", "dropdown minimax",
               "grid minimax"} /\ pc = "done" =>
    SameBoardAndSide(game, call.before)

PassSearchedAndUndone ==
  /\ call.op \in {"minimax", "dropdown minimax", "grid minimax"}
  /\ pc = "done"
  /\ LegalBefore = {}
  /\ ~IsTerminal(call.before)
  /\ call.depth >= 2
  /\ call.calls > 2
  /\ game = call.before

\* The list order_moves was given, and the place of move m in it.
GivenMoves == GetValidMoves(call.before.board, call.player)

GivenPlace(m) == CHOOSE k \in DOMAIN GivenMoves : GivenMoves[k] = m

\* 10000 for a corner, 10 for every cell the move turns over, and the weight
\* of the cell.
StatedScore(m) ==
  (IF m \in Corners THEN 10000 ELSE 0)
    + 10 * (Count(MakeMove(call.before, m[1], m[2], call.player).game.board, call.player)
              - Count(call.before.board, call.player) - 1)
    + Weight(m[1], m[2])

TurnedOver ==
  { m \in Cells : /\ call.before.board[m[1]][m[2]] = 0 - call.player
                  /\ game.board[m[1]][m[2]] = call.player }

\* C26: a make_move call that succeeds leaves the opponent of the side that
\* moved as the side to move, whichever side was to move before, and returns
\* the number of cells it turned from the opponent's colour to the mover's,
\* which is 1 or more.
SideSetAndFlipsReturned ==
  MoveMade =>
    /\ game.current_player = 0 - call.player
    /\ call.result = Cardinality(TurnedOver)
    /\ call.result >= 1

MovedOutOfTurn ==
  /\ MoveMade
  /\ call.player # call.before.current_player
  /\ game.current_player = call.before.current_player
  /\ call.result >= 1

\* C27: no call of minimax_ab made for ai_move returns the value of a table
\* entry written after the time limit was reached, in that call of ai_move
\* or in one before it; and once the limit is reached the loop of ai_move
\* makes no further pass.
NoStaleValueRead ==
  call.op = "ai_move" /\ copy = "cli" =>
    /\ call.late = 0
    /\ call.stale # {} => call.up
    /\ pc = "loop" /\ call.up => timer = 0

StaleEntriesLeft ==
  /\ call.op = "ai_move"
  /\ copy = "cli"
  /\ pc = "done"
  /\ call.plies >= 1
  /\ call.up
  /\ call.late = 0
  /\ \E key \in call.stale : key \in DOMAIN TT

\* Neither side has a legal move.
NoMovesLeft(board) == ValidMoveSet(board, 1) = {} /\ ValidMoveSet(board, -1) = {}

\* C28: in 'ai' mode a /move request answered with success leaves the game
\* over with game_over set, or not over with game_over unset, Black to move
\* and a legal move for Black.
WebAnswerLeavesBlackToMove ==
  call.op = "move" /\ mode = "ai" /\ call.status = 200 =>
    \/ NoMovesLeft(game.board) /\ game.game_over
    \/ /\ ~NoMovesLeft(game.board)
       /\ ~game.game_over
       /\ game.current_player = 1
       /\ ValidMoveSet(game.board, 1) # {}

ComputerAnsweredInRequest ==
  /\ call.op = "move"
  /\ mode = "ai"
  /\ call.status = 200
  /\ ~NoMovesLeft(game.board)
  /\ game.current_player = 1
  /\ Count(game.board, 0) = Count(call.before.board, 0) - 2

\* C29: play_game with legal inputs comes to its end; every turn that
\* changes the board fills one more cell, so that a game has at most 60
\* moves; a skipped turn leaves the board alone and never follows a skipped
\* turn; and the loop is left when and only when neither side has a legal
\* move.
PlayGameTerminates ==
  /\ [](Occupied(game.board) \in 4 .. 64)
  /\ [](pc = "over" => NoMovesLeft(game.board))
  /\ [][/\ AtLoopTop /\ NoMovesLeft(game.board) => pc' = "over"
        /\ call'.op = "skip" => call.op # "skip" /\ game'.board = game.board
        /\ game'.board # game.board => Occupied(game'.board) = Occupied(game.board) + 1]_vars
  /\ <>(pc = "over")

GamePlayedOut ==
  /\ pc = "over"
  /\ call.op = "game over"
  /\ NoMovesLeft(game.board)
  /\ TT # << >>

\* The cell n steps from the cell of the call in direction d.
Step(d, n) == << call.r + n * d[1], call.c + n * d[2] >>

\* On the board before the call, direction d holds a row of the opponent's
\* cells closed by a cell of the mover's.
Captures(d) ==
  \E n \in 2 .. BOARD_SIZE - 1 :
    /\ InBoard(Step(d, n)[1], Step(d, n)[2])
    /\ call.before.board[Step(d, n)[1]][Step(d, n)[2]] = call.player
    /\ \A k \in 1 .. n - 1 : call.before.board[Step(d, k)[1]][Step(d, k)[2]] = 0 - call.player

\* Cell m was turned over by the call.
Turned(m) ==
  /\ InBoard(m[1], m[2])
  /\ call.before.board[m[1]][m[2]] = 0 - call.player
  /\ game.board[m[1]][m[2]] = call.player

\* The number of cells the call turned over in direction d, counted from the
\* cell of the call on.
RunLength(d) ==
  CHOOSE n \in 0 .. BOARD_SIZE :
    /\ \A k \in 1 .. n : Turned(Step(d, k))
    /\ ~Turned(Step(d, n + 1))

\* The cell after the cells turned over in direction d.
StopCell(d) == Step(d, RunLength(d) + 1)

\* C30: a make_move call that succeeds, of the CLI copy or of the web and
\* drop-down one, turns cells over in the directions that capture on the
\* board before the call and in no other; in each of them the cells turned
\* end at a cell on the board that held the mover's colour; and the flip
\* loop without a bounds test raises no IndexError and reads no cell off the
\* board.
FlipsStopOnBoard ==
  pc = "returned" /\ call.op \in {"make_move", "web make_move"} /\ ~call.failed =>
    /\ ~call.raised
    /\ ~call.outside
    /\ \A i \in DOMAIN Directions :
         /\ Turned(Step(Directions[i], 1)) <=> Captures(Directions[i])
         /\ Captures(Directions[i]) =>
              /\ InBoard(StopCell(Directions[i])[1], StopCell(Directions[i])[2])
              /\ call.before.board[StopCell(Directions[i])[1]][StopCell(Directions[i])[2]]
                   = call.player
    /\ \A m \in ChangedCells :
         \E i \in DOMAIN Directions, k \in 1 .. BOARD_SIZE :
           m = Step(Directions[i], k) /\ k <= RunLength(Directions[i])

UntestedLoopStoppedAtEdge ==
  /\ pc = "returned"
  /\ call.op = "web make_move"
  /\ ~call.failed
  /\ \E i \in DOMAIN Directions, j \in DOMAIN Directions :
       /\ i # j
       /\ Captures(Directions[i])
       /\ Captures(Directions[j])
       /\ StopCell(Directions[i])[1] \in {0, BOARD_SIZE - 1}
====
